---- MODULE Spec2Model ----
(***************************************************************************)
(* A model of PyMesh's MD5 loaders (pymesh/md5/common.py, mesh.py,         *)
(* anim.py): the line lexer process_md5_buffer, the block seeker parse_to  *)
(* and the two load_from_buffer state machines.                            *)
(*                                                                         *)
(* Text.  A line of text is a sequence of items.  An item is one of        *)
(*   " "     a run of blanks or tabs,                                      *)
(*   "\n"    the line terminator (whitespace as well),                     *)
(*   "//"    the comment marker,                                           *)
(*   a word  a maximal run of other characters ("numJoints", "10", "(").   *)
(* Two words are never adjacent in a line: they are separated by           *)
(* whitespace or by a comment marker.  str.strip, str.split('//') and      *)
(* str.split(None) are computed on this representation.                    *)
(*                                                                         *)
(* Python's None is the empty tuple <<>>; a field holding the value v is   *)
(* the one-element tuple <<v>>.                                            *)
(***************************************************************************)
EXTENDS Integers, Sequences, FiniteSets, TLC

VARIABLES
    kind,      \* "mesh": an MD5_Mesh object is loaded, "anim": an MD5_Anim, "lex": the lexer alone
    raw,       \* the buffer handed to load_from_buffer: its lines, as buffer.next() returns them
    pos,       \* how many lines of the buffer have been read
    yielded,   \* the statements process_md5_buffer has yielded so far, in order
    pc,        \* the position in the code
    err,       \* None, or the exception that is propagating / was raised to the caller
    self,      \* the fields of the MD5_Mesh / MD5_Anim object
    loc,       \* the local variables of _process_buffer
    cur,       \* the block object under construction (MD5_Joints, MD5_SubMesh, ...)
    acc,       \* the list a list comprehension has built so far
    seek       \* the last call of parse_to: what was sought, from where, what it returned

vars == <<kind, raw, pos, yielded, pc, err, self, loc, cur, acc, seek>>

None == <<>>
Some(v) == <<v>>

----------------------------------------------------------------------------
(* Bounds of the model.                                                    *)

MaxLexItems == 4     \* items of a buffer, its line terminators apart (lexer runs)
MaxLexLines == 2     \* lines of a buffer (lexer runs)
MaxJoints == 2       \* joints of a well-formed file
MaxMeshes == 2       \* mesh blocks of a well-formed .md5mesh file
MaxEntries == 1      \* vertices, triangles and weights of a mesh block
MaxFrames == 2       \* frames of a well-formed .md5anim file

----------------------------------------------------------------------------
(* Strings.                                                                *)

IsSpace(c) == c \in {" ", "\n"}

RECURSIVE LStrip(_)
LStrip(s) == IF s # <<>> /\ IsSpace(Head(s)) THEN LStrip(Tail(s)) ELSE s

RECURSIVE RStrip(_)
RStrip(s) ==
    IF s # <<>> /\ IsSpace(s[Len(s)]) THEN RStrip(SubSeq(s, 1, Len(s) - 1)) ELSE s

\* str.strip()
Strip(s) == RStrip(LStrip(s))

\* str.split('//')[0]: the text before the first comment marker
RECURSIVE SplitComment(_)
SplitComment(s) ==
    IF s = <<>> \/ Head(s) = "//" THEN <<>> ELSE <<Head(s)>> \o SplitComment(Tail(s))

\* str.split(None): the words of the line
Split(s) == SelectSeq(s, LAMBDA c : ~IsSpace(c))

\* str.split(None, 1): the first word and, when something follows it, the rest
\* of the line with its leading whitespace removed (trailing whitespace kept)
Split1(s) ==
    LET t == LStrip(s)
        rest == IF t = <<>> THEN <<>> ELSE LStrip(Tail(t))
    IN  IF t = <<>> THEN <<>>
        ELSE IF rest = <<>> THEN <<Head(t)>>
        ELSE <<Head(t), rest>>

\* A mutant of str.startswith: the word has to go on after the prefix.
StartsWithMore(word, prefix) ==
    <<word, prefix>> \in {<<"frameRate", "frame">>, <<"numJointsTotal", "numJoints">>}

\* str.startswith, on the words this model uses as keywords
StartsWith(word, prefix) ==
    \/ word = prefix
    \/ <<word, prefix>> \in {<<"frameRate", "frame">>, <<"numJointsTotal", "numJoints">>}

----------------------------------------------------------------------------
(* Conversions.  A number is written as one word; int() and float() accept *)
(* surrounding whitespace and nothing else.  Floats are held in tenths.    *)

IntWords == {"-3", "-2", "-1", "0", "1", "2", "3", "4", "6", "9", "10", "12", "18", "24"}
FloatWords == IntWords \cup {"0.6", "0.8"}

IntVal(w) ==
    CASE w = "-3" -> -3 [] w = "-2" -> -2
      [] w = "-1" -> -1 [] w = "0" -> 0 [] w = "1" -> 1 [] w = "2" -> 2
      [] w = "3" -> 3 [] w = "4" -> 4 [] w = "6" -> 6 [] w = "9" -> 9
      [] w = "10" -> 10 [] w = "12" -> 12 [] w = "18" -> 18 [] w = "24" -> 24

FloatVal(w) ==
    CASE w \in IntWords -> 10 * IntVal(w) [] w = "0.6" -> 6 [] w = "0.8" -> 8

\* int(text) raises ValueError unless IsInt(text)
IsInt(text) == Len(Strip(text)) = 1 /\ Strip(text)[1] \in IntWords
IntOf(text) == IntVal(Strip(text)[1])

\* float(text) raises ValueError unless IsFloat(text)
IsFloat(text) == Len(Strip(text)) = 1 /\ Strip(text)[1] \in FloatWords
FloatOf(text) == FloatVal(Strip(text)[1])

\* the characters of the words that this model's files put where a name is read
Chars(w) ==
    CASE w = "\"a\"" -> <<"\"", "a", "\"">>
      [] w = "\"b\"" -> <<"\"", "b", "\"">>
      [] w = "x" -> <<"x">>
      [] w = "2" -> <<"2">>
      [] w = "-1" -> <<"-", "1">>
      [] w = " " -> <<" ">>

RECURSIVE TextChars(_)
TextChars(text) == IF text = <<>> THEN <<>> ELSE Chars(Head(text)) \o TextChars(Tail(text))

\* text[ 1:-1 ]: the text without its first and its last character
Unquote(text) == SubSeq(TextChars(text), 2, Len(TextChars(text)) - 1)

\* the largest integer whose square is at most n (math.sqrt, in tenths when n
\* is in hundredths)
RECURSIVE SqrtFrom(_, _)
SqrtFrom(n, r) == IF (r + 1) * (r + 1) > n THEN r ELSE SqrtFrom(n, r + 1)

\* A mutant of compute_quaternion_w: the test for a negative value is
\* missing, and the root of its magnitude is taken.
compute_quaternion_w_unguarded(x, y, z) ==
    LET w == 100 - (x * x) - (y * y) - (z * z)
    IN  SqrtFrom(IF w < 0 THEN 0 - w ELSE w, 0)

\* compute_quaternion_w, on tenths
compute_quaternion_w(x, y, z) ==
    LET w == 100 - (x * x) - (y * y) - (z * z)
    IN  IF w < 0 THEN 0 ELSE SqrtFrom(w, 0)

----------------------------------------------------------------------------
(* The line lexer: process_md5_buffer.                                      *)

\* the statement text md5_line makes of one line of the buffer
CleanLine(line) == SplitComment(Strip(line))

\* A mutant of the generator: the test for empty lines is missing.
RECURSIVE NextStmtNoSkip(_, _)
NextStmtNoSkip(buf, p) ==
    IF p >= Len(buf) THEN [eof |-> TRUE, pos |-> Len(buf), line |-> <<>>]
    ELSE IF buf[p + 1] = <<>> THEN [eof |-> TRUE, pos |-> p + 1, line |-> <<>>]
    ELSE [eof |-> FALSE, pos |-> p + 1, line |-> CleanLine(buf[p + 1])]

\* One next() of the generator md5_line, with p lines of the buffer read:
\* the next statement and the new read position, or eof when the generator
\* ends (buffer.next() raised StopIteration, or returned '').
RECURSIVE NextStmt(_, _)
NextStmt(buf, p) ==
    IF p >= Len(buf) THEN [eof |-> TRUE, pos |-> Len(buf), line |-> <<>>]
    ELSE IF buf[p + 1] = <<>> THEN [eof |-> TRUE, pos |-> p + 1, line |-> <<>>]
    ELSE LET line == CleanLine(buf[p + 1])
         IN  IF Len(line) <= 0 THEN NextStmt(buf, p + 1)
             ELSE [eof |-> FALSE, pos |-> p + 1, line |-> line]

----------------------------------------------------------------------------
(* The block seeker: parse_to.                                             *)

\* A mutant of parse_to: the first word is compared with startswith.
RECURSIVE parse_to_startswith(_, _, _)
parse_to_startswith(buf, p, keyword) ==
    LET n == NextStmt(buf, p)
    IN  IF n.eof
        THEN [raised |-> TRUE, none |-> FALSE, pos |-> n.pos, line |-> <<>>, seen |-> <<>>]
        ELSE IF StartsWith(Split(n.line)[1], keyword)
        THEN [raised |-> FALSE, none |-> FALSE, pos |-> n.pos, line |-> n.line,
              seen |-> <<n.line>>]
        ELSE LET r == parse_to_startswith(buf, n.pos, keyword)
             IN  [r EXCEPT !.seen = <<n.line>> \o @]

\* A mutant of parse_to: the end of the statements returns None instead of
\* letting the generator's StopIteration through.
RECURSIVE parse_to_none(_, _, _)
parse_to_none(buf, p, keyword) ==
    LET n == NextStmt(buf, p)
    IN  IF n.eof
        THEN [raised |-> FALSE, none |-> TRUE, pos |-> n.pos, line |-> <<>>, seen |-> <<>>]
        ELSE IF Split(n.line)[1] = keyword
        THEN [raised |-> FALSE, none |-> FALSE, pos |-> n.pos, line |-> n.line,
              seen |-> <<n.line>>]
        ELSE LET r == parse_to_none(buf, n.pos, keyword)
             IN  [r EXCEPT !.seen = <<n.line>> \o @]

\* A mutant of parse_to: when the statements end, the seek starts again at
\* the first line of the buffer.
parse_to_rewind(buf, p, keyword) ==
    IF parse_to_none(buf, p, keyword).none /\ ~parse_to_none(buf, 0, keyword).none
    THEN parse_to_none(buf, 0, keyword)
    ELSE [parse_to_none(buf, p, keyword) EXCEPT !.raised = @ \/ parse_to_none(buf, p, keyword).none,
                                                  !.none = FALSE]

\* A mutant of parse_to: a statement that does not start with the keyword is
\* not passed over; the seek ends there and returns None.
parse_to_next(buf, p, keyword) ==
    LET n == NextStmt(buf, p)
    IN  IF n.eof
        THEN [raised |-> TRUE, none |-> FALSE, pos |-> n.pos, line |-> <<>>, seen |-> <<>>]
        ELSE IF Split(n.line)[1] = keyword
        THEN [raised |-> FALSE, none |-> FALSE, pos |-> n.pos, line |-> n.line,
              seen |-> <<n.line>>]
        ELSE [raised |-> FALSE, none |-> TRUE, pos |-> n.pos, line |-> <<>>,
              seen |-> <<n.line>>]

\* parse_to( buffer, keyword ) with p lines of the buffer read.  raised: the
\* statements ended and buffer.next() raised StopIteration; none: the call
\* returned None; otherwise line is the statement returned.  pos is the read
\* position the call leaves, seen the statements the generator handed out.
RECURSIVE parse_to(_, _, _)
parse_to(buf, p, keyword) ==
    LET n == NextStmt(buf, p)
    IN  IF n.eof
        THEN [raised |-> TRUE, none |-> FALSE, pos |-> n.pos, line |-> <<>>, seen |-> <<>>]
        ELSE IF n.line = <<>>
        THEN [raised |-> FALSE, none |-> TRUE, pos |-> n.pos, line |-> <<>>,
              seen |-> <<n.line>>]
        ELSE IF Split(n.line)[1] = keyword
        THEN [raised |-> FALSE, none |-> FALSE, pos |-> n.pos, line |-> n.line,
              seen |-> <<n.line>>]
        ELSE LET r == parse_to(buf, n.pos, keyword)
             IN  [r EXCEPT !.seen = <<n.line>> \o @]

----------------------------------------------------------------------------
(* The statement parsers of mesh.py.  Each returns exc = "" and the value  *)
(* parsed, or the type of the exception it raises.                         *)

Ok(v) == [exc |-> "", val |-> v]
Fails(type) == [exc |-> type, val |-> <<>>]

\* `values = line.split( None, 1 ); int( values[ 1 ] )` on what parse_to returned
HeaderInt1(pt) ==
    IF pt.raised THEN Fails("StopIteration")
    ELSE IF pt.none THEN Fails("AttributeError")
    ELSE IF Len(Split1(pt.line)) < 2 THEN Fails("IndexError")
    ELSE IF ~IsInt(Split1(pt.line)[2]) THEN Fails("ValueError")
    ELSE Ok(IntOf(Split1(pt.line)[2]))

\* A mutant of process_joint: a parent index above 0 is stored as -1.
process_joint_checked(line) ==
    LET values == Split(line)
        W(i) == <<values[i]>>
    IN  IF Len(values) # 12 THEN Fails("ValueError")
        ELSE IF ~IsInt(W(2)) \/ \E i \in {4, 5, 6, 9, 10, 11} : ~IsFloat(W(i))
        THEN Fails("ValueError")
        ELSE Ok([name |-> Unquote(W(1)),
                 parent |-> IF IntOf(W(2)) > 0 THEN -1 ELSE IntOf(W(2)),
                 position |-> <<FloatOf(W(4)), FloatOf(W(5)), FloatOf(W(6))>>,
                 orientation |-> <<FloatOf(W(9)), FloatOf(W(10)), FloatOf(W(11)),
                                   compute_quaternion_w(FloatOf(W(9)), FloatOf(W(10)),
                                                        FloatOf(W(11)))>>])

\* MD5_Joints._process_joints.process_joint
process_joint(line) ==
    LET values == Split(line)
        W(i) == <<values[i]>>
    IN  IF Len(values) # 12 THEN Fails("ValueError")
        ELSE IF ~IsInt(W(2)) \/ \E i \in {4, 5, 6, 9, 10, 11} : ~IsFloat(W(i))
        THEN Fails("ValueError")
        ELSE Ok([name |-> Unquote(W(1)),
                 parent |-> IntOf(W(2)),
                 position |-> <<FloatOf(W(4)), FloatOf(W(5)), FloatOf(W(6))>>,
                 orientation |-> <<FloatOf(W(9)), FloatOf(W(10)), FloatOf(W(11)),
                                   compute_quaternion_w(FloatOf(W(9)), FloatOf(W(10)),
                                                        FloatOf(W(11)))>>])

\* A mutant of process_vert: the texture coordinate is read one word early,
\* from the index of the vertex.
process_vert_index(line) ==
    LET values == Split(line)
        W(i) == <<values[i]>>
    IN  IF Len(values) # 8 THEN Fails("ValueError")
        ELSE IF ~IsFloat(W(2)) \/ ~IsFloat(W(5)) \/ ~IsInt(W(7)) \/ ~IsInt(W(8))
        THEN Fails("ValueError")
        ELSE Ok([tcs |-> <<FloatOf(W(2)), FloatOf(W(5))>>,
                 start_weight |-> IntOf(W(7)),
                 weight_count |-> IntOf(W(8))])

\* MD5_SubMesh._process_vertices.process_vert
process_vert(line) ==
    LET values == Split(line)
        W(i) == <<values[i]>>
    IN  IF Len(values) # 8 THEN Fails("ValueError")
        ELSE IF ~IsFloat(W(4)) \/ ~IsFloat(W(5)) \/ ~IsInt(W(7)) \/ ~IsInt(W(8))
        THEN Fails("ValueError")
        ELSE Ok([tcs |-> <<FloatOf(W(4)), FloatOf(W(5))>>,
                 start_weight |-> IntOf(W(7)),
                 weight_count |-> IntOf(W(8))])

\* MD5_SubMesh._process_triangles.process_tri
process_tri(line) ==
    LET values == Split(line)
        W(i) == <<values[i]>>
    IN  IF Len(values) # 5 THEN Fails("ValueError")
        ELSE IF \E i \in {3, 4, 5} : ~IsInt(W(i)) THEN Fails("ValueError")
        ELSE Ok(<<IntOf(W(3)), IntOf(W(4)), IntOf(W(5))>>)

\* A mutant of process_weight: the joint is read one word early, from the
\* index of the weight.
process_weight_index(line) ==
    LET values == Split(line)
        W(i) == <<values[i]>>
    IN  IF Len(values) # 9 THEN Fails("ValueError")
        ELSE IF ~IsInt(W(2)) \/ \E i \in {4, 6, 7, 8} : ~IsFloat(W(i))
        THEN Fails("ValueError")
        ELSE Ok([joint |-> IntOf(W(2)),
                 bias |-> FloatOf(W(4)),
                 position |-> <<FloatOf(W(6)), FloatOf(W(7)), FloatOf(W(8))>>])

\* MD5_SubMesh._process_weights.process_weight
process_weight(line) ==
    LET values == Split(line)
        W(i) == <<values[i]>>
    IN  IF Len(values) # 9 THEN Fails("ValueError")
        ELSE IF ~IsInt(W(3)) \/ \E i \in {4, 6, 7, 8} : ~IsFloat(W(i))
        THEN Fails("ValueError")
        ELSE Ok([joint |-> IntOf(W(3)),
                 bias |-> FloatOf(W(4)),
                 position |-> <<FloatOf(W(6)), FloatOf(W(7)), FloatOf(W(8))>>])

----------------------------------------------------------------------------
(* The lexer alone, on every small buffer.                                 *)

LexItems == {" ", "//", "a"}

RECURSIVE SeqsUpTo(_, _)
SeqsUpTo(S, n) ==
    IF n = 0 THEN {<<>>}
    ELSE LET shorter == SeqsUpTo(S, n - 1)
         IN  shorter \cup {Append(s, x) : s \in {t \in shorter : Len(t) = n - 1}, x \in S}

\* The buffers of at most n lines and k items.  A line is as a file iterator
\* returns it: text, then the terminator.
RECURSIVE LexBuffersOf(_, _)
LexBuffersOf(n, k) ==
    IF n = 0 THEN {<<>>}
    ELSE {<<>>} \cup
         UNION {{<<Append(body, "\n")>> \o rest : rest \in LexBuffersOf(n - 1, k - Len(body))} :
                    body \in SeqsUpTo(LexItems, k)}

LexBuffers == LexBuffersOf(MaxLexLines, MaxLexItems)

NoObject == [md5_version |-> None]
NoSeek == [keyword |-> "", from |-> 0, found |-> FALSE, line |-> <<>>]

InitLex ==
    /\ kind = "lex"
    /\ raw \in LexBuffers
    /\ pos = 0
    /\ yielded = <<>>
    /\ pc = "lex"
    /\ err = None
    /\ self = NoObject
    /\ loc = <<>>
    /\ cur = None
    /\ acc = <<>>
    /\ seek = NoSeek

\* `for line in gen: yield line`: the consumer receives the next statement
LexYield ==
    /\ pc = "lex"
    /\ ~NextStmt(raw, pos).eof
    /\ yielded' = Append(yielded, NextStmt(raw, pos).line)
    /\ pos' = NextStmt(raw, pos).pos
    /\ UNCHANGED <<kind, raw, pc, err, self, loc, cur, acc, seek>>

\* the generator is exhausted
LexStop ==
    /\ pc = "lex"
    /\ NextStmt(raw, pos).eof
    /\ pos' = NextStmt(raw, pos).pos
    /\ pc' = "lex_done"
    /\ UNCHANGED <<kind, raw, yielded, err, self, loc, cur, acc, seek>>

NextLex == LexYield \/ LexStop

SpecLex == InitLex /\ [][NextLex]_vars

----------------------------------------------------------------------------
(* MD5_Mesh.load_from_buffer.                                              *)

\* the attributes of the class MD5
MD5 == [md5_version |-> 10]

\* The exception that the raise statement of the version check ends with:
\* its message is formatted from MD5.version and the version found.
VersionError(found) ==
    IF "version" \in DOMAIN MD5
    THEN [type |-> "ValueError", args |-> <<MD5.version, found>>]
    ELSE [type |-> "AttributeError", args |-> <<>>]

Exception(type) == [type |-> type, args |-> <<>>]

\* A mutant of the version test: every version is accepted.
VersionAlwaysMatches(found) == TRUE

\* `self.md5_version != MD5.md5_version` is false
VersionMatches(found) == found = MD5.md5_version

\* MD5_Mesh.__init__
NewMesh == [md5_version |-> None, joints |-> None, meshes |-> None]

\* MD5_SubMesh.__init__, before _process_mesh.  at: the number of statements
\* yielded when the count line of a block was read (not a field of the object).
NewSubMesh ==
    [shader |-> None, tcs |-> None, start_weights |-> None, weight_counts |-> None,
     tris |-> None, joints |-> None, biases |-> None, positions |-> None,
     at |-> [verts |-> 0, tris |-> 0, weights |-> 0]]

\* MD5_Joints.__init__ and the allocations of _process_joints; an array holds
\* the entries assigned so far
NewJoints(at) ==
    [names |-> <<>>, parents |-> <<>>, positions |-> <<>>, orientations |-> <<>>, at |-> at]

\* the locals of _process_buffer and of the block being read; 0 and <<>>
\* stand for a local that is not assigned yet
NoLocals ==
    [num_joints |-> 0, num_meshes |-> 0, num_frames |-> 0, num_animated_components |-> 0,
     count |-> 0, list |-> <<>>]

\* the statements a call of parse_to consumes, and the record of the call
Sought(pt, keyword) ==
    /\ pos' = pt.pos
    /\ yielded' = yielded \o pt.seen
    /\ seek' = [keyword |-> keyword, from |-> Len(yielded),
                found |-> ~pt.raised /\ ~pt.none, line |-> pt.line]

\* one buffer.next() of the statements
Took(n) ==
    /\ pos' = n.pos
    /\ yielded' = IF n.eof THEN yielded ELSE Append(yielded, n.line)
    /\ UNCHANGED seek

\* an exception leaves _process_buffer
Raise(e) ==
    /\ err' = Some(e)
    /\ pc' = "except"

\* mesh.py 481-483
MeshVersion ==
    /\ kind = "mesh" /\ pc = "start"
    /\ LET pt == parse_to(raw, pos, "MD5Version")
           r == HeaderInt1(pt)
       IN  /\ Sought(pt, "MD5Version")
           /\ IF r.exc # ""
              THEN Raise(Exception(r.exc)) /\ UNCHANGED self
              ELSE /\ self' = [self EXCEPT !.md5_version = Some(r.val)]
                   /\ pc' = "check_version"
                   /\ UNCHANGED err
    /\ UNCHANGED <<kind, raw, loc, cur, acc>>

\* mesh.py 485-491
MeshCheckVersion ==
    /\ kind = "mesh" /\ pc = "check_version"
    /\ IF ~VersionMatches(self.md5_version[1])
       THEN Raise(VersionError(self.md5_version[1]))
       ELSE pc' = "num_joints" /\ UNCHANGED err
    /\ UNCHANGED <<kind, raw, pos, yielded, self, loc, cur, acc, seek>>

\* mesh.py 496-498
MeshNumJoints ==
    /\ kind = "mesh" /\ pc = "num_joints"
    /\ LET pt == parse_to(raw, pos, "numJoints")
           r == HeaderInt1(pt)
       IN  /\ Sought(pt, "numJoints")
           /\ IF r.exc # ""
              THEN Raise(Exception(r.exc)) /\ UNCHANGED loc
              ELSE /\ loc' = [loc EXCEPT !.num_joints = r.val]
                   /\ pc' = "num_meshes"
                   /\ UNCHANGED err
    /\ UNCHANGED <<kind, raw, self, cur, acc>>

\* mesh.py 500-502
MeshNumMeshes ==
    /\ kind = "mesh" /\ pc = "num_meshes"
    /\ LET pt == parse_to(raw, pos, "numMeshes")
           r == HeaderInt1(pt)
       IN  /\ Sought(pt, "numMeshes")
           /\ IF r.exc # ""
              THEN Raise(Exception(r.exc)) /\ UNCHANGED loc
              ELSE /\ loc' = [loc EXCEPT !.num_meshes = r.val]
                   /\ pc' = "joints"
                   /\ UNCHANGED err
    /\ UNCHANGED <<kind, raw, self, cur, acc>>

\* mesh.py 505 and 509-512 once the joints are complete: self.joints is
\* assigned and the list comprehension over range( num_meshes ) starts; it
\* is empty when num_meshes <= 0, and then _process_buffer returns.
Joined(s, joints) ==
    IF loc.num_meshes <= 0
    THEN [self |-> [s EXCEPT !.joints = Some(joints), !.meshes = Some(<<>>)],
          pc |-> "returned"]
    ELSE [self |-> [s EXCEPT !.joints = Some(joints)], pc |-> "mesh"]

\* MD5_Joints( buffer, num_joints ) up to the loop: mesh.py 275-365
MeshJoints ==
    /\ kind = "mesh" /\ pc = "joints"
    /\ LET pt == parse_to(raw, pos, "joints")
       IN  /\ Sought(pt, "joints")
           /\ IF pt.raised
              THEN Raise(Exception("StopIteration")) /\ UNCHANGED <<self, cur>>
              ELSE IF loc.num_joints < 0
              THEN \* numpy.empty: negative dimensions are not allowed
                   Raise(Exception("ValueError")) /\ UNCHANGED <<self, cur>>
              ELSE IF loc.num_joints = 0
              THEN /\ self' = Joined(self, NewJoints(Len(yielded'))).self
                   /\ pc' = Joined(self, NewJoints(Len(yielded'))).pc
                   /\ UNCHANGED <<err, cur>>
              ELSE /\ cur' = Some(NewJoints(Len(yielded')))
                   /\ pc' = "joint"
                   /\ UNCHANGED <<err, self>>
    /\ UNCHANGED <<kind, raw, loc, acc>>

\* one iteration of the loop of _process_joints: mesh.py 368-374
MeshJoint ==
    /\ kind = "mesh" /\ pc = "joint"
    /\ LET n == NextStmt(raw, pos)
           r == IF n.eof THEN Fails("StopIteration") ELSE process_joint(n.line)
           j == [cur[1] EXCEPT !.names = Append(@, r.val.name),
                               !.parents = Append(@, r.val.parent),
                               !.positions = Append(@, r.val.position),
                               !.orientations = Append(@, r.val.orientation)]
       IN  /\ Took(n)
           /\ IF r.exc # ""
              THEN Raise(Exception(r.exc)) /\ UNCHANGED <<self, cur>>
              ELSE IF Len(j.names) < loc.num_joints
              THEN cur' = Some(j) /\ UNCHANGED <<pc, err, self>>
              ELSE /\ self' = Joined(self, j).self
                   /\ pc' = Joined(self, j).pc
                   /\ cur' = None
                   /\ UNCHANGED err
    /\ UNCHANGED <<kind, raw, loc, acc>>

\* MD5_SubMesh( buffer ) up to the seek of the mesh block: mesh.py 71-90, 146-147
MeshSubMesh ==
    /\ kind = "mesh" /\ pc = "mesh"
    /\ LET pt == parse_to(raw, pos, "mesh")
       IN  /\ Sought(pt, "mesh")
           /\ IF pt.raised
              THEN Raise(Exception("StopIteration")) /\ UNCHANGED cur
              ELSE cur' = Some(NewSubMesh) /\ pc' = "shader" /\ UNCHANGED err
    /\ UNCHANGED <<kind, raw, self, loc, acc>>

\* MD5_SubMesh._process_shader: mesh.py 157-160
MeshShader ==
    /\ kind = "mesh" /\ pc = "shader"
    /\ LET pt == parse_to(raw, pos, "shader")
           values == Split1(pt.line)
       IN  /\ Sought(pt, "shader")
           /\ IF pt.raised
              THEN Raise(Exception("StopIteration")) /\ UNCHANGED cur
              ELSE IF pt.none
              THEN Raise(Exception("AttributeError")) /\ UNCHANGED cur
              ELSE IF Len(values) < 2
              THEN Raise(Exception("IndexError")) /\ UNCHANGED cur
              ELSE /\ cur' = Some([cur[1] EXCEPT !.shader = Some(Unquote(values[2]))])
                   /\ pc' = "numverts"
                   /\ UNCHANGED err
    /\ UNCHANGED <<kind, raw, self, loc, acc>>

\* MD5_SubMesh._process_vertices up to the loop: mesh.py 177-183
MeshNumVerts ==
    /\ kind = "mesh" /\ pc = "numverts"
    /\ LET pt == parse_to(raw, pos, "numverts")
           r == HeaderInt1(pt)
       IN  /\ Sought(pt, "numverts")
           /\ IF r.exc # ""
              THEN Raise(Exception(r.exc)) /\ UNCHANGED <<cur, loc>>
              ELSE IF r.val < 0
              THEN \* numpy.empty: negative dimensions are not allowed
                   Raise(Exception("ValueError")) /\ UNCHANGED <<cur, loc>>
              ELSE /\ cur' = Some([cur[1] EXCEPT !.tcs = Some(<<>>),
                                                 !.start_weights = Some(<<>>),
                                                 !.weight_counts = Some(<<>>),
                                                 !.at.verts = Len(yielded')])
                   /\ loc' = [loc EXCEPT !.count = r.val]
                   /\ pc' = IF r.val = 0 THEN "numtris" ELSE "vert"
                   /\ UNCHANGED err
    /\ UNCHANGED <<kind, raw, self, acc>>

\* one iteration of the loop of _process_vertices: mesh.py 186-191
MeshVert ==
    /\ kind = "mesh" /\ pc = "vert"
    /\ LET n == NextStmt(raw, pos)
           r == IF n.eof THEN Fails("StopIteration") ELSE process_vert(n.line)
           m == [cur[1] EXCEPT !.tcs = Some(Append(@[1], r.val.tcs)),
                               !.start_weights = Some(Append(@[1], r.val.start_weight)),
                               !.weight_counts = Some(Append(@[1], r.val.weight_count))]
       IN  /\ Took(n)
           /\ IF r.exc # ""
              THEN Raise(Exception(r.exc)) /\ UNCHANGED cur
              ELSE /\ cur' = Some(m)
                   /\ pc' = IF Len(m.tcs[1]) < loc.count THEN "vert" ELSE "numtris"
                   /\ UNCHANGED err
    /\ UNCHANGED <<kind, raw, self, loc, acc>>

\* numpy.array( ..., dtype = 'float' ) of a list of integer triples
FloatArray(list) == [i \in 1..Len(list) |-> [k \in 1..3 |-> 10 * list[i][k]]]

\* MD5_SubMesh._process_triangles up to the list comprehension, and all of
\* it when range( num_tris ) is empty: mesh.py 206-216
MeshNumTris ==
    /\ kind = "mesh" /\ pc = "numtris"
    /\ LET pt == parse_to(raw, pos, "numtris")
           r == HeaderInt1(pt)
       IN  /\ Sought(pt, "numtris")
           /\ IF r.exc # ""
              THEN Raise(Exception(r.exc)) /\ UNCHANGED <<cur, loc>>
              ELSE /\ loc' = [loc EXCEPT !.count = r.val, !.list = <<>>]
                   /\ cur' = Some([cur[1] EXCEPT
                                     !.tris = IF r.val <= 0 THEN Some(<<>>) ELSE @,
                                     !.at.tris = Len(yielded')])
                   /\ pc' = IF r.val <= 0 THEN "numweights" ELSE "tri"
                   /\ UNCHANGED err
    /\ UNCHANGED <<kind, raw, self, acc>>

\* one element of the list comprehension of _process_triangles: mesh.py 210-216
MeshTri ==
    /\ kind = "mesh" /\ pc = "tri"
    /\ LET n == NextStmt(raw, pos)
           r == IF n.eof THEN Fails("StopIteration") ELSE process_tri(n.line)
           list == Append(loc.list, r.val)
       IN  /\ Took(n)
           /\ IF r.exc # ""
              THEN Raise(Exception(r.exc)) /\ UNCHANGED <<cur, loc>>
              ELSE IF Len(list) < loc.count
              THEN loc' = [loc EXCEPT !.list = list] /\ UNCHANGED <<cur, pc, err>>
              ELSE /\ loc' = [loc EXCEPT !.list = <<>>]
                   /\ cur' = Some([cur[1] EXCEPT !.tris = Some(FloatArray(list))])
                   /\ pc' = "numweights"
                   /\ UNCHANGED err
    /\ UNCHANGED <<kind, raw, self, acc>>

\* mesh.py 509-512 once a submesh is complete: it joins the list of the
\* comprehension; after the last one self.meshes is assigned and
\* _process_buffer returns.
Built(submesh) ==
    LET list == Append(acc, submesh)
    IN  IF Len(list) < loc.num_meshes
        THEN [acc |-> list, self |-> self, pc |-> "mesh"]
        ELSE [acc |-> <<>>, self |-> [self EXCEPT !.meshes = Some(list)], pc |-> "returned"]

\* MD5_SubMesh._process_weights up to the loop: mesh.py 237-243
MeshNumWeights ==
    /\ kind = "mesh" /\ pc = "numweights"
    /\ LET pt == parse_to(raw, pos, "numweights")
           r == HeaderInt1(pt)
           m == [cur[1] EXCEPT !.joints = Some(<<>>), !.biases = Some(<<>>),
                               !.positions = Some(<<>>), !.at.weights = Len(yielded')]
       IN  /\ Sought(pt, "numweights")
           /\ IF r.exc # ""
              THEN Raise(Exception(r.exc)) /\ UNCHANGED <<cur, loc, acc, self>>
              ELSE IF r.val < 0
              THEN \* numpy.empty: negative dimensions are not allowed
                   Raise(Exception("ValueError")) /\ UNCHANGED <<cur, loc, acc, self>>
              ELSE IF r.val = 0
              THEN /\ acc' = Built(m).acc /\ self' = Built(m).self /\ pc' = Built(m).pc
                   /\ cur' = None
                   /\ loc' = [loc EXCEPT !.count = r.val]
                   /\ UNCHANGED err
              ELSE /\ cur' = Some(m)
                   /\ loc' = [loc EXCEPT !.count = r.val]
                   /\ pc' = "weight"
                   /\ UNCHANGED <<err, acc, self>>
    /\ UNCHANGED <<kind, raw>>

\* one iteration of the loop of _process_weights: mesh.py 245-250
MeshWeight ==
    /\ kind = "mesh" /\ pc = "weight"
    /\ LET n == NextStmt(raw, pos)
           r == IF n.eof THEN Fails("StopIteration") ELSE process_weight(n.line)
           m == [cur[1] EXCEPT !.joints = Some(Append(@[1], r.val.joint)),
                               !.biases = Some(Append(@[1], r.val.bias)),
                               !.positions = Some(Append(@[1], r.val.position))]
       IN  /\ Took(n)
           /\ IF r.exc # ""
              THEN Raise(Exception(r.exc)) /\ UNCHANGED <<cur, acc, self>>
              ELSE IF Len(m.joints[1]) < loc.count
              THEN cur' = Some(m) /\ UNCHANGED <<pc, err, acc, self>>
              ELSE /\ acc' = Built(m).acc /\ self' = Built(m).self /\ pc' = Built(m).pc
                   /\ cur' = None
                   /\ UNCHANGED err
    /\ UNCHANGED <<kind, raw, loc>>

\* A mutant of the except clause: the joints are left on the object.
MeshClearedPartly(s) == [s EXCEPT !.md5_version = None, !.meshes = None]

\* the assignments of the except clause of MD5_Mesh.load_from_buffer
MeshCleared(s) == [s EXCEPT !.md5_version = None, !.joints = None, !.meshes = None]

\* the except clause of MD5_Mesh.load_from_buffer: mesh.py 470-475
MeshExcept ==
    /\ kind = "mesh" /\ pc = "except"
    /\ self' = MeshCleared(self)
    /\ pc' = "raised"
    /\ UNCHANGED <<kind, raw, pos, yielded, err, loc, cur, acc, seek>>

MeshNext ==
    \/ MeshVersion \/ MeshCheckVersion \/ MeshNumJoints \/ MeshNumMeshes
    \/ MeshJoints \/ MeshJoint
    \/ MeshSubMesh \/ MeshShader \/ MeshNumVerts \/ MeshVert
    \/ MeshNumTris \/ MeshTri \/ MeshNumWeights \/ MeshWeight
    \/ MeshExcept

----------------------------------------------------------------------------
(* The statement parsers of anim.py.                                       *)

\* `values = line.split( None ); int( values[ 1 ] )` on what parse_to returned
HeaderInt(pt) ==
    IF pt.raised THEN Fails("StopIteration")
    ELSE IF pt.none THEN Fails("AttributeError")
    ELSE IF Len(Split(pt.line)) < 2 THEN Fails("IndexError")
    ELSE IF ~IsInt(<<Split(pt.line)[2]>>) THEN Fails("ValueError")
    ELSE Ok(IntOf(<<Split(pt.line)[2]>>))

\* MD5_Hierarchy._process_hierarchy.process_joint
process_hierarchy_joint(line) ==
    LET values == Split(line)
        W(i) == <<values[i]>>
    IN  IF Len(values) # 4 THEN Fails("ValueError")
        ELSE IF \E i \in {2, 3, 4} : ~IsInt(W(i)) THEN Fails("ValueError")
        ELSE Ok([name |-> Unquote(W(1)),
                 parent_index |-> IntOf(W(2)),
                 num_components |-> IntOf(W(3)),
                 frame_index |-> IntOf(W(4))])

\* MD5_Bounds._process_bounds.process_bounds
process_bounds(line) ==
    LET values == Split(line)
        W(i) == <<values[i]>>
    IN  IF Len(values) # 10 THEN Fails("ValueError")
        ELSE IF \E i \in {2, 3, 4, 7, 8, 9} : ~IsFloat(W(i)) THEN Fails("ValueError")
        ELSE Ok(<<<<FloatOf(W(2)), FloatOf(W(3)), FloatOf(W(4))>>,
                  <<FloatOf(W(7)), FloatOf(W(8)), FloatOf(W(9))>>>>)

\* MD5_BaseFrame._process_base_frame.process_bone
process_base_bone(line) ==
    LET values == Split(line)
        W(i) == <<values[i]>>
    IN  IF Len(values) # 10 THEN Fails("ValueError")
        ELSE IF \E i \in {2, 3, 4, 7, 8, 9} : ~IsFloat(W(i)) THEN Fails("ValueError")
        ELSE Ok([position |-> <<FloatOf(W(2)), FloatOf(W(3)), FloatOf(W(4))>>,
                 orientation |-> <<FloatOf(W(7)), FloatOf(W(8)), FloatOf(W(9)),
                                   compute_quaternion_w(FloatOf(W(7)), FloatOf(W(8)),
                                                        FloatOf(W(9)))>>])

\* pymesh.utils.extract_tuple( values, size, default ): the first `size` values,
\* the missing ones replaced by the default
extract_tuple(values, size, default) ==
    [i \in 1..size |-> IF i <= Len(values) THEN Some(values[i]) ELSE default]

\* the truth value of an optional float: None and 0.0 are false
Truthy(v) == v # None /\ v[1] # 0

\* A mutant of process_bone: a line that does not hold all six values is
\* refused.
process_frame_bone_full(line) ==
    LET words == Split(line)
        values == extract_tuple([i \in 1..Len(words) |-> FloatOf(<<words[i]>>)], 6, None)
        quat_w == IF Truthy(values[4]) /\ Truthy(values[5]) /\ Truthy(values[6])
                  THEN Some(compute_quaternion_w(values[4][1], values[5][1], values[6][1]))
                  ELSE None
    IN  IF Len(words) # 6 \/ \E i \in 1..Len(words) : ~IsFloat(<<words[i]>>)
        THEN Fails("ValueError")
        ELSE Ok([position |-> <<values[1], values[2], values[3]>>,
                 orientation |-> <<values[4], values[5], values[6], quat_w>>])

\* MD5_Frame._process_frame.process_bone
process_frame_bone(line) ==
    LET words == Split(line)
        values == extract_tuple([i \in 1..Len(words) |-> FloatOf(<<words[i]>>)], 6, None)
        quat_w == IF Truthy(values[4]) /\ Truthy(values[5]) /\ Truthy(values[6])
                  THEN Some(compute_quaternion_w(values[4][1], values[5][1], values[6][1]))
                  ELSE None
    IN  IF \E i \in 1..Len(words) : ~IsFloat(<<words[i]>>) THEN Fails("ValueError")
        ELSE Ok([position |-> <<values[1], values[2], values[3]>>,
                 orientation |-> <<values[4], values[5], values[6], quat_w>>])

----------------------------------------------------------------------------
(* MD5_Anim.load_from_buffer.                                              *)

\* MD5_Anim.__init__
NewAnim ==
    [md5_version |-> None, frame_rate |-> None, hierarchy |-> None, bounds |-> None,
     base_frame |-> None, frames |-> None]

\* MD5_Hierarchy.__init__ and the allocations of _process_hierarchy
NewHierarchy(at) ==
    [names |-> <<>>, parent_indices |-> <<>>, num_components |-> <<>>,
     frame_indices |-> <<>>, at |-> at]

\* MD5_BaseFrame.__init__ and the allocations of _process_base_frame
NewBaseFrame(at) == [positions |-> <<>>, orientations |-> <<>>, at |-> at]

\* anim.py 425-427
AnimVersion ==
    /\ kind = "anim" /\ pc = "start"
    /\ LET pt == parse_to(raw, pos, "MD5Version")
           r == HeaderInt(pt)
       IN  /\ Sought(pt, "MD5Version")
           /\ IF r.exc # ""
              THEN Raise(Exception(r.exc)) /\ UNCHANGED self
              ELSE /\ self' = [self EXCEPT !.md5_version = Some(r.val)]
                   /\ pc' = "check_version"
                   /\ UNCHANGED err
    /\ UNCHANGED <<kind, raw, loc, cur, acc>>

\* anim.py 429-435
AnimCheckVersion ==
    /\ kind = "anim" /\ pc = "check_version"
    /\ IF ~VersionMatches(self.md5_version[1])
       THEN Raise(VersionError(self.md5_version[1]))
       ELSE pc' = "num_frames" /\ UNCHANGED err
    /\ UNCHANGED <<kind, raw, pos, yielded, self, loc, cur, acc, seek>>

\* anim.py 440-442
AnimNumFrames ==
    /\ kind = "anim" /\ pc = "num_frames"
    /\ LET pt == parse_to(raw, pos, "numFrames")
           r == HeaderInt(pt)
       IN  /\ Sought(pt, "numFrames")
           /\ IF r.exc # ""
              THEN Raise(Exception(r.exc)) /\ UNCHANGED loc
              ELSE /\ loc' = [loc EXCEPT !.num_frames = r.val]
                   /\ pc' = "num_joints"
                   /\ UNCHANGED err
    /\ UNCHANGED <<kind, raw, self, cur, acc>>

\* anim.py 444-446
AnimNumJoints ==
    /\ kind = "anim" /\ pc = "num_joints"
    /\ LET pt == parse_to(raw, pos, "numJoints")
           r == HeaderInt(pt)
       IN  /\ Sought(pt, "numJoints")
           /\ IF r.exc # ""
              THEN Raise(Exception(r.exc)) /\ UNCHANGED loc
              ELSE /\ loc' = [loc EXCEPT !.num_joints = r.val]
                   /\ pc' = "frame_rate"
                   /\ UNCHANGED err
    /\ UNCHANGED <<kind, raw, self, cur, acc>>

\* anim.py 448-450
AnimFrameRate ==
    /\ kind = "anim" /\ pc = "frame_rate"
    /\ LET pt == parse_to(raw, pos, "frameRate")
           r == HeaderInt(pt)
       IN  /\ Sought(pt, "frameRate")
           /\ IF r.exc # ""
              THEN Raise(Exception(r.exc)) /\ UNCHANGED self
              ELSE /\ self' = [self EXCEPT !.frame_rate = Some(r.val)]
                   /\ pc' = "num_animated_components"
                   /\ UNCHANGED err
    /\ UNCHANGED <<kind, raw, loc, cur, acc>>

\* anim.py 455-457
AnimNumAnimatedComponents ==
    /\ kind = "anim" /\ pc = "num_animated_components"
    /\ LET pt == parse_to(raw, pos, "numAnimatedComponents")
           r == HeaderInt(pt)
       IN  /\ Sought(pt, "numAnimatedComponents")
           /\ IF r.exc # ""
              THEN Raise(Exception(r.exc)) /\ UNCHANGED loc
              ELSE /\ loc' = [loc EXCEPT !.num_animated_components = r.val]
                   /\ pc' = "hierarchy"
                   /\ UNCHANGED err
    /\ UNCHANGED <<kind, raw, self, cur, acc>>

\* MD5_Hierarchy( buffer, num_joints ) up to the loop, and anim.py 460 when
\* the loop is empty: anim.py 21-29, 90-96
AnimHierarchy ==
    /\ kind = "anim" /\ pc = "hierarchy"
    /\ LET pt == parse_to(raw, pos, "hierarchy")
       IN  /\ Sought(pt, "hierarchy")
           /\ IF pt.raised
              THEN Raise(Exception("StopIteration")) /\ UNCHANGED <<self, cur>>
              ELSE IF loc.num_joints < 0
              THEN \* numpy.empty: negative dimensions are not allowed
                   Raise(Exception("ValueError")) /\ UNCHANGED <<self, cur>>
              ELSE IF loc.num_joints = 0
              THEN /\ self' = [self EXCEPT !.hierarchy = Some(NewHierarchy(Len(yielded')))]
                   /\ pc' = "bounds"
                   /\ UNCHANGED <<err, cur>>
              ELSE /\ cur' = Some(NewHierarchy(Len(yielded')))
                   /\ pc' = "hierarchy_joint"
                   /\ UNCHANGED <<err, self>>
    /\ UNCHANGED <<kind, raw, loc, acc>>

\* one iteration of the loop of _process_hierarchy: anim.py 99-105
AnimHierarchyJoint ==
    /\ kind = "anim" /\ pc = "hierarchy_joint"
    /\ LET n == NextStmt(raw, pos)
           r == IF n.eof THEN Fails("StopIteration") ELSE process_hierarchy_joint(n.line)
           h == [cur[1] EXCEPT !.names = Append(@, r.val.name),
                               !.parent_indices = Append(@, r.val.parent_index),
                               !.num_components = Append(@, r.val.num_components),
                               !.frame_indices = Append(@, r.val.frame_index)]
       IN  /\ Took(n)
           /\ IF r.exc # ""
              THEN Raise(Exception(r.exc)) /\ UNCHANGED <<self, cur>>
              ELSE IF Len(h.names) < loc.num_joints
              THEN cur' = Some(h) /\ UNCHANGED <<pc, err, self>>
              ELSE /\ self' = [self EXCEPT !.hierarchy = Some(h)]
                   /\ pc' = "bounds"
                   /\ cur' = None
                   /\ UNCHANGED err
    /\ UNCHANGED <<kind, raw, loc, acc>>

\* MD5_Bounds( buffer, num_frames ) up to the list comprehension, and all of
\* it when range( num_frames ) is empty: anim.py 110-115, 167-177, 463
AnimBounds ==
    /\ kind = "anim" /\ pc = "bounds"
    /\ LET pt == parse_to(raw, pos, "bounds")
       IN  /\ Sought(pt, "bounds")
           /\ IF pt.raised
              THEN Raise(Exception("StopIteration")) /\ UNCHANGED <<self, cur, loc>>
              ELSE IF loc.num_frames <= 0
              THEN /\ self' = [self EXCEPT
                                 !.bounds = Some([bounds |-> <<>>, at |-> Len(yielded')])]
                   /\ pc' = "baseframe"
                   /\ UNCHANGED <<err, cur, loc>>
              ELSE /\ cur' = Some([bounds |-> None, at |-> Len(yielded')])
                   /\ loc' = [loc EXCEPT !.list = <<>>]
                   /\ pc' = "bound"
                   /\ UNCHANGED <<err, self>>
    /\ UNCHANGED <<kind, raw, acc>>

\* one element of the list comprehension of _process_bounds: anim.py 171-177
AnimBound ==
    /\ kind = "anim" /\ pc = "bound"
    /\ LET n == NextStmt(raw, pos)
           r == IF n.eof THEN Fails("StopIteration") ELSE process_bounds(n.line)
           list == Append(loc.list, r.val)
       IN  /\ Took(n)
           /\ IF r.exc # ""
              THEN Raise(Exception(r.exc)) /\ UNCHANGED <<self, cur, loc>>
              ELSE IF Len(list) < loc.num_frames
              THEN loc' = [loc EXCEPT !.list = list] /\ UNCHANGED <<pc, err, self, cur>>
              ELSE /\ self' = [self EXCEPT !.bounds = Some([cur[1] EXCEPT !.bounds = list])]
                   /\ loc' = [loc EXCEPT !.list = <<>>]
                   /\ pc' = "baseframe"
                   /\ cur' = None
                   /\ UNCHANGED err
    /\ UNCHANGED <<kind, raw, acc>>

\* anim.py 466 and 470-473 once the base frame is complete: self.base_frame
\* is assigned and the list comprehension over range( num_frames ) starts; it
\* is empty when num_frames <= 0, and then _process_buffer returns.
BaseFramed(s, base_frame) ==
    IF loc.num_frames <= 0
    THEN [self |-> [s EXCEPT !.base_frame = Some(base_frame), !.frames = Some(<<>>)],
          pc |-> "returned"]
    ELSE [self |-> [s EXCEPT !.base_frame = Some(base_frame)], pc |-> "frame"]

\* MD5_BaseFrame( buffer, num_joints ) up to the loop: anim.py 189-195, 254-258
AnimBaseFrame ==
    /\ kind = "anim" /\ pc = "baseframe"
    /\ LET pt == parse_to(raw, pos, "baseframe")
       IN  /\ Sought(pt, "baseframe")
           /\ IF pt.raised
              THEN Raise(Exception("StopIteration")) /\ UNCHANGED <<self, cur>>
              ELSE IF loc.num_joints < 0
              THEN \* numpy.empty: negative dimensions are not allowed
                   Raise(Exception("ValueError")) /\ UNCHANGED <<self, cur>>
              ELSE IF loc.num_joints = 0
              THEN /\ self' = BaseFramed(self, NewBaseFrame(Len(yielded'))).self
                   /\ pc' = BaseFramed(self, NewBaseFrame(Len(yielded'))).pc
                   /\ UNCHANGED <<err, cur>>
              ELSE /\ cur' = Some(NewBaseFrame(Len(yielded')))
                   /\ pc' = "bone"
                   /\ UNCHANGED <<err, self>>
    /\ UNCHANGED <<kind, raw, loc, acc>>

\* one iteration of the loop of _process_base_frame: anim.py 261-265
AnimBone ==
    /\ kind = "anim" /\ pc = "bone"
    /\ LET n == NextStmt(raw, pos)
           r == IF n.eof THEN Fails("StopIteration") ELSE process_base_bone(n.line)
           b == [cur[1] EXCEPT !.positions = Append(@, r.val.position),
                               !.orientations = Append(@, r.val.orientation)]
       IN  /\ Took(n)
           /\ IF r.exc # ""
              THEN Raise(Exception(r.exc)) /\ UNCHANGED <<self, cur>>
              ELSE IF Len(b.positions) < loc.num_joints
              THEN cur' = Some(b) /\ UNCHANGED <<pc, err, self>>
              ELSE /\ self' = BaseFramed(self, b).self
                   /\ pc' = BaseFramed(self, b).pc
                   /\ cur' = None
                   /\ UNCHANGED err
    /\ UNCHANGED <<kind, raw, loc, acc>>

\* MD5_Frame( buffer ) up to the loop: anim.py 277-283, 359-364
AnimFrame ==
    /\ kind = "anim" /\ pc = "frame"
    /\ LET pt == parse_to(raw, pos, "frame")
       IN  /\ Sought(pt, "frame")
           /\ IF pt.raised
              THEN Raise(Exception("StopIteration")) /\ UNCHANGED <<cur, loc>>
              ELSE /\ cur' = Some([positions |-> None, orientations |-> None,
                                   at |-> Len(yielded')])
                   /\ loc' = [loc EXCEPT !.list = <<>>]
                   /\ pc' = "frame_line"
                   /\ UNCHANGED err
    /\ UNCHANGED <<kind, raw, self, acc>>

\* one iteration of the loop of _process_frame, and what follows its break:
\* anim.py 366-377, 470-473.  loc.list holds the bones appended so far.
AnimFrameLine ==
    /\ kind = "anim" /\ pc = "frame_line"
    /\ LET n == NextStmt(raw, pos)
           closes == ~n.eof /\ StartsWith(n.line[1], "}")
           r == IF n.eof THEN Fails("StopIteration") ELSE process_frame_bone(n.line)
           frame == [cur[1] EXCEPT
                       !.positions = Some([i \in 1..Len(loc.list) |-> loc.list[i].position]),
                       !.orientations =
                           Some([i \in 1..Len(loc.list) |-> loc.list[i].orientation])]
           list == Append(acc, frame)
       IN  /\ Took(n)
           /\ IF closes
              THEN /\ cur' = None
                   /\ loc' = [loc EXCEPT !.list = <<>>]
                   /\ UNCHANGED err
                   /\ IF Len(list) < loc.num_frames
                      THEN acc' = list /\ pc' = "frame" /\ UNCHANGED self
                      ELSE /\ acc' = <<>>
                           /\ self' = [self EXCEPT !.frames = Some(list)]
                           /\ pc' = "returned"
              ELSE IF r.exc # ""
              THEN Raise(Exception(r.exc)) /\ UNCHANGED <<self, cur, loc, acc>>
              ELSE /\ loc' = [loc EXCEPT !.list = Append(@, r.val)]
                   /\ UNCHANGED <<pc, err, self, cur, acc>>
    /\ UNCHANGED <<kind, raw>>

\* the assignments of the except clause of MD5_Anim.load_from_buffer
AnimCleared(s) ==
    [s EXCEPT !.frame_rate = None, !.hierarchy = None, !.bounds = None,
              !.base_frame = None, !.frames = None]

\* the except clause of MD5_Anim.load_from_buffer: anim.py 405-412
AnimExcept ==
    /\ kind = "anim" /\ pc = "except"
    /\ self' = AnimCleared(self)
    /\ pc' = "raised"
    /\ UNCHANGED <<kind, raw, pos, yielded, err, loc, cur, acc, seek>>

AnimNext ==
    \/ AnimVersion \/ AnimCheckVersion \/ AnimNumFrames \/ AnimNumJoints
    \/ AnimFrameRate \/ AnimNumAnimatedComponents
    \/ AnimHierarchy \/ AnimHierarchyJoint \/ AnimBounds \/ AnimBound
    \/ AnimBaseFrame \/ AnimBone \/ AnimFrame \/ AnimFrameLine
    \/ AnimExcept

----------------------------------------------------------------------------
(* The buffers loaded: well-formed files of every size within the bounds,  *)
(* and each of them with one edit.                                         *)

RECURSIVE Join(_)
Join(words) ==
    IF Len(words) <= 1 THEN words ELSE <<Head(words), " ">> \o Join(Tail(words))

\* the line of the words given, as a file iterator returns it
Line(words) == Append(Join(words), "\n")

Num(n) ==
    CASE n = -1 -> "-1" [] n = 0 -> "0" [] n = 1 -> "1" [] n = 2 -> "2"
      [] n = 3 -> "3" [] n = 4 -> "4" [] n = 6 -> "6" [] n = 12 -> "12" [] n = 18 -> "18"

RECURSIVE Concat(_)
Concat(seqs) == IF seqs = <<>> THEN <<>> ELSE Head(seqs) \o Concat(Tail(seqs))

\* joint i (from 1): its parent is the joint before it, the first is a root
JointLine(i) ==
    Line(<<"\"a\"", Num(i - 2), "(", Num(i - 1), "0", "0", ")", "(", "0", "0.6", "0", ")">>)

VertLine(k) == Line(<<"vert", Num(k - 1), "(", Num(k), "0", ")", Num(k - 1), "1">>)
TriLine(k) == Line(<<"tri", Num(k - 1), Num(k), "0", "0">>)
WeightLine(k) == Line(<<"weight", Num(k - 1), "0", "1", "(", Num(k), "0", "0", ")">>)

\* a mesh block of ne vertices, ne triangles and ne weights
MeshBlock(ne) ==
    <<Line(<<"mesh", "{">>), Line(<<"shader", "\"b\"">>)>>
    \o <<Line(<<"numverts", Num(ne)>>)>> \o [k \in 1..ne |-> VertLine(k)]
    \o <<Line(<<"numtris", Num(ne)>>)>> \o [k \in 1..ne |-> TriLine(k)]
    \o <<Line(<<"numweights", Num(ne)>>)>> \o [k \in 1..ne |-> WeightLine(k)]
    \o <<Line(<<"}">>)>>

\* a .md5mesh file of nj joints and nm mesh blocks
MeshFile(nj, nm, ne) ==
    <<Line(<<"MD5Version", "10">>),
      Line(<<"numJoints", Num(nj)>>),
      Line(<<"numMeshes", Num(nm)>>),
      Line(<<"joints", "{">>)>>
    \o [i \in 1..nj |-> JointLine(i)]
    \o <<Line(<<"}">>)>>
    \o Concat([m \in 1..nm |-> MeshBlock(ne)])

\* the line with its j-th word replaced
RECURSIVE SetWord(_, _, _)
SetWord(line, j, w) ==
    IF line = <<>> THEN <<>>
    ELSE IF IsSpace(Head(line)) THEN <<Head(line)>> \o SetWord(Tail(line), j, w)
    ELSE IF j = 1 THEN <<w>> \o Tail(line)
    ELSE <<Head(line)>> \o SetWord(Tail(line), j - 1, w)

\* the line without its last word
DropWord(line) == Line(SubSeq(Split(line), 1, Len(Split(line)) - 1))

\* the line with whitespace and a comment after its text
WithComment(line) == SubSeq(line, 1, Len(line) - 1) \o <<" ", "//", "c", "\n">>

EditWords == {"x", "-1", "2"}
ExtraLines == {<<"\n">>, Line(<<"frameRate", "24">>)}

Replaced(f, i, line) == [f EXCEPT ![i] = line]

\* the file, and the file with one edit: cut short, a line removed, a line
\* doubled, the first word or the second replaced, the last word dropped, a
\* comment added, a line inserted, two neighbouring lines exchanged
Edited(f) ==
    {f}
    \cup {[f EXCEPT ![i] = f[i + 1], ![i + 1] = f[i]] : i \in 1..(Len(f) - 1)}
    \cup {SubSeq(f, 1, i) : i \in 0..(Len(f) - 1)}
    \cup {SubSeq(f, 1, i - 1) \o SubSeq(f, i + 1, Len(f)) : i \in 1..Len(f)}
    \cup {SubSeq(f, 1, i) \o SubSeq(f, i, Len(f)) : i \in 1..Len(f)}
    \cup {Replaced(f, i, SetWord(f[i], 1, "x")) : i \in 1..Len(f)}
    \cup {Replaced(f, i, SetWord(f[i], 2, w)) : i \in 1..Len(f), w \in EditWords}
    \cup {Replaced(f, i, DropWord(f[i])) : i \in 1..Len(f)}
    \cup {Replaced(f, i, WithComment(f[i])) : i \in 1..Len(f)}
    \cup {SubSeq(f, 1, i) \o <<l>> \o SubSeq(f, i + 1, Len(f)) :
              i \in 0..Len(f), l \in ExtraLines}

HierarchyLine(i) == Line(<<"\"a\"", Num(i - 2), "6", Num(6 * (i - 1))>>)
BoundsLine(f) == Line(<<"(", Num(f - 1), "0", "0", ")", "(", Num(f), "1", "1", ")">>)
BaseFrameLine(i) == Line(<<"(", Num(i), "0", "0", ")", "(", "0", "0.6", "0", ")">>)
FrameLine(i) == Line(<<Num(i), "0", "0", "0.6", "0.8", "0">>)

FrameBlock(f, nj) ==
    <<Line(<<"frame", Num(f - 1), "{">>)>>
    \o [i \in 1..nj |-> FrameLine(i)]
    \o <<Line(<<"}">>)>>

\* a .md5anim file of nf frames of nj joints
AnimFile(nf, nj) ==
    <<Line(<<"MD5Version", "10">>),
      Line(<<"numFrames", Num(nf)>>),
      Line(<<"numJoints", Num(nj)>>),
      Line(<<"frameRate", "24">>),
      Line(<<"numAnimatedComponents", Num(6 * nj)>>),
      Line(<<"hierarchy", "{">>)>>
    \o [i \in 1..nj |-> HierarchyLine(i)]
    \o <<Line(<<"}">>), Line(<<"bounds", "{">>)>>
    \o [f \in 1..nf |-> BoundsLine(f)]
    \o <<Line(<<"}">>), Line(<<"baseframe", "{">>)>>
    \o [i \in 1..nj |-> BaseFrameLine(i)]
    \o <<Line(<<"}">>)>>
    \o Concat([f \in 1..nf |-> FrameBlock(f, nj)])

AnimFiles == UNION {Edited(AnimFile(nf, nj)) : nf \in 0..MaxFrames, nj \in 0..MaxJoints}

MeshFiles ==
    UNION {Edited(MeshFile(nj, nm, ne)) :
               nj \in 0..MaxJoints, nm \in 0..MaxMeshes, ne \in 0..MaxEntries}

InitMesh ==
    /\ kind = "mesh"
    /\ raw \in MeshFiles
    /\ pos = 0
    /\ yielded = <<>>
    /\ pc = "start"
    /\ err = None
    /\ self = NewMesh
    /\ loc = NoLocals
    /\ cur = None
    /\ acc = <<>>
    /\ seek = NoSeek

InitAnim ==
    /\ kind = "anim"
    /\ raw \in AnimFiles
    /\ pos = 0
    /\ yielded = <<>>
    /\ pc = "start"
    /\ err = None
    /\ self = NewAnim
    /\ loc = NoLocals
    /\ cur = None
    /\ acc = <<>>
    /\ seek = NoSeek

Init == InitMesh \/ InitAnim

Next == MeshNext \/ AnimNext

Spec == Init /\ [][Next]_vars

----------------------------------------------------------------------------
(* C7, C8: what the lexer yields.                                          *)

\* line i of the buffer holds a word before its first comment marker
HasStatement(line) ==
    \E j \in 1..Len(line) :
        /\ ~IsSpace(line[j]) /\ line[j] # "//"
        /\ \A k \in 1..(j - 1) : line[k] # "//"

\* the indices of the lines read so far that hold a statement, in order
StatementLines == SelectSeq([i \in 1..pos |-> i], LAMBDA i : HasStatement(raw[i]))

\* C7: process_md5_buffer yields, in input order and each exactly once, the
\* lines read so far that are non-empty once whitespace is stripped and the
\* comment is removed; it never yields an empty statement, nor one holding
\* a comment marker.
C7_YieldsStatementsInOrder ==
    kind = "lex" =>
        /\ Len(yielded) = Len(StatementLines)
        /\ \A k \in 1..Len(yielded) :
              /\ yielded[k] = SplitComment(Strip(raw[StatementLines[k]]))
              /\ yielded[k] # <<>>
              /\ \A j \in 1..Len(yielded[k]) : yielded[k][j] # "//"

C7_Witness ==
    /\ kind = "lex" /\ pc = "lex_done"
    /\ Len(raw) = 2 /\ Len(yielded) = 1
    /\ ~HasStatement(raw[1]) /\ HasStatement(raw[2])

\* C8 (as claimed): every yielded line has no leading and no trailing
\* whitespace.
C8_YieldedLinesAreTrimmed ==
    \A k \in 1..Len(yielded) :
        /\ ~IsSpace(yielded[k][1])
        /\ ~IsSpace(yielded[k][Len(yielded[k])])

----------------------------------------------------------------------------
(* C1, C2: the loads are all-or-nothing.                                   *)

\* C1: when MD5_Mesh.load_from_buffer has raised, wherever the parse failed,
\* md5_version, joints and meshes are all None.
C1_MeshLoadAllOrNothing ==
    (kind = "mesh" /\ pc = "raised") =>
        /\ err # None
        /\ self.md5_version = None
        /\ self.joints = None
        /\ self.meshes = None

\* a load that failed in its second mesh block, the joints and a submesh built
C1_Witness ==
    /\ kind = "mesh" /\ pc = "raised"
    /\ Len(acc) = 1
    /\ seek.keyword = "numtris"

\* C2 (as claimed): when MD5_Anim.load_from_buffer has raised, md5_version,
\* frame_rate, hierarchy, bounds, base_frame and frames are all None.
C2_AnimLoadAllOrNothing ==
    (kind = "anim" /\ pc = "raised") =>
        /\ self.md5_version = None
        /\ self.frame_rate = None
        /\ self.hierarchy = None
        /\ self.bounds = None
        /\ self.base_frame = None
        /\ self.frames = None

----------------------------------------------------------------------------
(* C3, C4: the version check.                                              *)

\* the first statement yielded is an MD5Version line naming a version other
\* than the supported one
VersionDiffers ==
    /\ Len(yielded) >= 1
    /\ Len(Split(yielded[1])) = 2
    /\ Split(yielded[1])[1] = "MD5Version"
    /\ Split(yielded[1])[2] \in IntWords
    /\ IntVal(Split(yielded[1])[2]) # 10

\* C3: when the MD5Version line of a mesh file names a version other than 10,
\* the load aborts with an error before anything else is read: no statement
\* after the version line is consumed, numJoints and numMeshes are not read,
\* no joint is parsed and joints is never assigned.
C3_VersionMismatchAbortsBeforeJoints ==
    (kind = "mesh" /\ VersionDiffers) =>
        /\ pc \in {"check_version", "except", "raised"}
        /\ pc = "raised" => err # None
        /\ Len(yielded) = 1
        /\ seek.keyword = "MD5Version"
        /\ loc = NoLocals
        /\ cur = None
        /\ self.joints = None

C3_Witness ==
    /\ kind = "mesh" /\ VersionDiffers
    /\ pc = "raised"
    /\ Len(raw) > pos

\* C4 (as claimed): the error raised on a version mismatch, by either
\* loader, is the error of the raise statement of the version check, and it
\* reports the expected version 10 and the version found.
C4_VersionErrorReportsVersions ==
    (kind \in {"mesh", "anim"} /\ VersionDiffers /\ pc \in {"except", "raised"}) =>
        /\ err # None
        /\ err[1].type = "ValueError"
        /\ err[1].args = <<10, IntVal(Split(yielded[1])[2])>>

----------------------------------------------------------------------------
(* C5, C6: the block seeker.                                               *)

\* the first word of a statement
FirstWord(line) == Split(line)[1]

\* C5: a call of parse_to that returns a line returns the first statement not
\* yet consumed whose first word is the keyword itself; the statements before
\* it are consumed, and the last line read from the buffer is the line
\* returned, so that the next read yields the statement that follows it.
C5_ParseToReturnsFirstMatch ==
    [][(seek' # seek /\ seek'.found) =>
          LET k == Len(yielded')
          IN  /\ seek'.from = Len(yielded)
              /\ k > Len(yielded)
              /\ SubSeq(yielded', 1, Len(yielded)) = yielded
              /\ seek'.line = yielded'[k]
              /\ FirstWord(yielded'[k]) = seek'.keyword
              /\ \A i \in (Len(yielded) + 1)..(k - 1) : FirstWord(yielded'[i]) # seek'.keyword
              /\ pos' > pos
              /\ SplitComment(Strip(raw[pos'])) = seek'.line
              /\ Len(SelectSeq(SubSeq(raw, pos + 1, pos'), HasStatement)) = k - Len(yielded)
       ]_vars

\* a seek of "frame" that has passed over a frameRate line
C5_Witness ==
    /\ seek.keyword = "frame" /\ seek.found
    /\ seek.line = yielded[Len(yielded)]
    /\ \E i \in (seek.from + 1)..(Len(yielded) - 1) : FirstWord(yielded[i]) = "frameRate"

\* the keyword that the code at pc seeks with parse_to
Sought_keyword ==
    CASE pc = "start" -> "MD5Version"
      [] pc = "num_joints" -> "numJoints"
      [] pc = "num_meshes" -> "numMeshes"
      [] pc = "joints" -> "joints"
      [] pc = "mesh" -> "mesh"
      [] pc = "shader" -> "shader"
      [] pc = "numverts" -> "numverts"
      [] pc = "numtris" -> "numtris"
      [] pc = "numweights" -> "numweights"
      [] pc = "num_frames" -> "numFrames"
      [] pc = "frame_rate" -> "frameRate"
      [] pc = "num_animated_components" -> "numAnimatedComponents"
      [] pc = "hierarchy" -> "hierarchy"
      [] pc = "bounds" -> "bounds"
      [] pc = "baseframe" -> "baseframe"
      [] pc = "frame" -> "frame"
      [] OTHER -> ""

\* no line of the buffer still to be read starts with the keyword
Absent(keyword) ==
    \A i \in (pos + 1)..Len(raw) :
        HasStatement(raw[i]) => FirstWord(SplitComment(Strip(raw[i]))) # keyword

\* C6: when the code seeks a keyword that no remaining line starts with, the
\* seek raises, the load goes to its except clause and ends by raising: it
\* never returns successfully.
C6_MissingKeywordAborts ==
    [][/\ (Sought_keyword # "" /\ Absent(Sought_keyword)) =>
              (pc' = "except" /\ err' # None /\ ~seek'.found)
       /\ pc = "except" => (pc' = "raised" /\ err' = err /\ err # None)
      ]_vars

\* a mesh load that ended by raising because no numweights line was left
C6_Witness ==
    /\ kind = "mesh" /\ pc = "raised"
    /\ seek.keyword = "numweights" /\ ~seek.found
    /\ err[1].type = "StopIteration"
    /\ self.joints = None

----------------------------------------------------------------------------
(* C9, C10: what a successful load holds.                                  *)

\* the words of the i-th statement yielded
Words(i) == Split(yielded[i])

\* the integer on the first statement yielded whose first word is the keyword
Declared(keyword) ==
    LET k == CHOOSE k \in 1..Len(yielded) :
                 /\ FirstWord(yielded[k]) = keyword
                 /\ \A i \in 1..(k - 1) : FirstWord(yielded[i]) # keyword
    IN  IntVal(Words(k)[2])

\* the length of range( n )
RangeLen(n) == IF n < 0 THEN 0 ELSE n

\* C9 (as claimed): after a successful mesh load num_joints is len(joints) and
\* the declared numJoints, and every joint i has parent_index -1 or below i.
C9_ParentsPrecedeJoints ==
    (kind = "mesh" /\ pc = "returned") =>
        LET j == self.joints[1]
        IN  /\ Len(j.names) = Declared("numJoints")
            /\ Len(j.parents) = Len(j.names)
            /\ \A i \in 1..Len(j.parents) :
                   j.parents[i] = -1 \/ j.parents[i] < i - 1

\* C9 (amended): after a successful mesh load num_joints is len(joints) and
\* the declared numJoints, and the parent_index of every joint is the integer
\* written as the second word of its line, whatever it is: the loader does
\* not compare it with the index of the joint.
C9_ParentsAsWritten ==
    (kind = "mesh" /\ pc = "returned") =>
        LET j == self.joints[1]
        IN  /\ Len(j.names) = Declared("numJoints")
            /\ Len(j.parents) = Len(j.names)
            /\ Len(j.positions) = Len(j.names)
            /\ Len(j.orientations) = Len(j.names)
            /\ \A i \in 1..Len(j.parents) :
                   j.parents[i] = IntVal(Words(j.at + i)[2])

\* a mesh loaded with a first joint whose parent is joint 2
C9_Witness ==
    /\ kind = "mesh" /\ pc = "returned"
    /\ Len(self.joints[1].parents) >= 1
    /\ self.joints[1].parents[1] = 2
    /\ Words(self.joints[1].at + 1)[2] = "2"

\* the entries of a submesh are the lines that follow its count lines
SubMeshAsWritten(m) ==
    LET nv == IntVal(Words(m.at.verts)[2])
        nt == IntVal(Words(m.at.tris)[2])
        nw == IntVal(Words(m.at.weights)[2])
    IN  /\ Words(m.at.verts)[1] = "numverts"
        /\ Words(m.at.tris)[1] = "numtris"
        /\ Words(m.at.weights)[1] = "numweights"
        /\ Len(m.tcs[1]) = nv
        /\ Len(m.start_weights[1]) = nv
        /\ Len(m.weight_counts[1]) = nv
        /\ \A k \in 1..nv :
               LET w == Words(m.at.verts + k)
               IN  /\ m.tcs[1][k] = <<FloatVal(w[4]), FloatVal(w[5])>>
                   /\ m.start_weights[1][k] = IntVal(w[7])
                   /\ m.weight_counts[1][k] = IntVal(w[8])
        /\ Len(m.tris[1]) = RangeLen(nt)
        /\ \A k \in 1..nt :
               LET w == Words(m.at.tris + k)
               IN  m.tris[1][k] = <<10 * IntVal(w[3]), 10 * IntVal(w[4]), 10 * IntVal(w[5])>>
        /\ Len(m.joints[1]) = nw
        /\ Len(m.biases[1]) = nw
        /\ Len(m.positions[1]) = nw
        /\ \A k \in 1..nw :
               LET w == Words(m.at.weights + k)
               IN  /\ m.joints[1][k] = IntVal(w[3])
                   /\ m.biases[1][k] = FloatVal(w[4])
                   /\ m.positions[1][k] = <<FloatVal(w[6]), FloatVal(w[7]), FloatVal(w[8])>>

\* the blocks of an animation hold the lines that follow their openers
AnimAsWritten(a) ==
    LET nj == Declared("numJoints")
        nf == Declared("numFrames")
        h == a.hierarchy[1]
        b == a.bounds[1]
        f == a.base_frame[1]
    IN  /\ Len(h.names) = nj
        /\ Len(h.parent_indices) = nj
        /\ Len(h.num_components) = nj
        /\ Len(h.frame_indices) = nj
        /\ \A k \in 1..nj :
               LET w == Words(h.at + k)
               IN  /\ h.parent_indices[k] = IntVal(w[2])
                   /\ h.num_components[k] = IntVal(w[3])
                   /\ h.frame_indices[k] = IntVal(w[4])
        /\ Len(b.bounds) = RangeLen(nf)
        /\ \A k \in 1..nf :
               LET w == Words(b.at + k)
               IN  b.bounds[k] = <<<<FloatVal(w[2]), FloatVal(w[3]), FloatVal(w[4])>>,
                                   <<FloatVal(w[7]), FloatVal(w[8]), FloatVal(w[9])>>>>
        /\ Len(f.positions) = nj
        /\ Len(f.orientations) = nj
        /\ \A k \in 1..nj :
               LET w == Words(f.at + k)
               IN  f.positions[k] = <<FloatVal(w[2]), FloatVal(w[3]), FloatVal(w[4])>>
        /\ Len(a.frames[1]) = RangeLen(nf)
        /\ \A k \in 1..Len(a.frames[1]) : Words(a.frames[1][k].at)[1] = "frame"

\* C10 (as claimed): after a successful load every counted block holds
\* exactly its declared number of entries: len(meshes) is numMeshes, each
\* submesh has numverts vertices, numtris triangles and numweights weights,
\* and an animation has numJoints hierarchy entries, numFrames bounds,
\* numJoints base frame bones and numFrames frames.
C10_BlocksHoldDeclaredCounts ==
    /\ (kind = "mesh" /\ pc = "returned") =>
           /\ Len(self.meshes[1]) = Declared("numMeshes")
           /\ \A s \in 1..Len(self.meshes[1]) :
                  LET m == self.meshes[1][s]
                  IN  /\ Len(m.tcs[1]) = IntVal(Words(m.at.verts)[2])
                      /\ Len(m.tris[1]) = IntVal(Words(m.at.tris)[2])
                      /\ Len(m.joints[1]) = IntVal(Words(m.at.weights)[2])
    /\ (kind = "anim" /\ pc = "returned") =>
           /\ Len(self.hierarchy[1].names) = Declared("numJoints")
           /\ Len(self.bounds[1].bounds) = Declared("numFrames")
           /\ Len(self.base_frame[1].positions) = Declared("numJoints")
           /\ Len(self.frames[1]) = Declared("numFrames")

\* C10 (amended): after a successful load every counted block holds its
\* declared number of entries when that number is not negative, and none
\* when numMeshes, numtris or numFrames is negative (the load succeeds then);
\* the k-th entry of a block is built from the k-th line after its count or
\* opener line, and the index written on a vert, tri or weight line takes no
\* part in it.
C10_BlocksHoldFollowingLines ==
    /\ (kind = "mesh" /\ pc = "returned") =>
           /\ Len(self.meshes[1]) = RangeLen(Declared("numMeshes"))
           /\ \A s \in 1..Len(self.meshes[1]) : SubMeshAsWritten(self.meshes[1][s])
    /\ (kind = "anim" /\ pc = "returned") => AnimAsWritten(self)

\* a mesh loaded from a file whose first vertex line carries the index x
C10_Witness ==
    /\ kind = "mesh" /\ pc = "returned"
    /\ Len(self.meshes[1]) >= 1
    /\ Len(self.meshes[1][1].tcs[1]) >= 1
    /\ Words(self.meshes[1][1].at.verts + 1)[2] = "x"

----------------------------------------------------------------------------
(* C11, C12: what the loaders do not validate.                             *)

\* C11 (as claimed): in every submesh of a successfully loaded mesh, every
\* vertex has start_weight + weight_count <= len(weights) and every weight
\* has a joint index below num_joints.
C11_WeightReferencesInRange ==
    (kind = "mesh" /\ pc = "returned") =>
        \A s \in 1..Len(self.meshes[1]) :
            LET m == self.meshes[1][s]
            IN  /\ \A k \in 1..Len(m.start_weights[1]) :
                       m.start_weights[1][k] + m.weight_counts[1][k] <= Len(m.joints[1])
                /\ \A k \in 1..Len(m.joints[1]) :
                       m.joints[1][k] < Len(self.joints[1].names)

\* C11 (amended): in every submesh of a successfully loaded mesh, the
\* start_weight and weight_count of a vertex and the joint of a weight are
\* the integers written on its line (the last two words of a vert line, the
\* third word of a weight line); the loader compares them with neither the
\* number of weights nor the number of joints.
C11_WeightReferencesAsWritten ==
    (kind = "mesh" /\ pc = "returned") =>
        \A s \in 1..Len(self.meshes[1]) :
            LET m == self.meshes[1][s]
            IN  /\ \A k \in 1..Len(m.start_weights[1]) :
                       /\ m.start_weights[1][k] = IntVal(Words(m.at.verts + k)[7])
                       /\ m.weight_counts[1][k] = IntVal(Words(m.at.verts + k)[8])
                /\ \A k \in 1..Len(m.joints[1]) :
                       m.joints[1][k] = IntVal(Words(m.at.weights + k)[3])

\* a mesh loaded without joints whose weight is bound to joint 0, on a line
\* that carries another index
C11_Witness ==
    /\ kind = "mesh" /\ pc = "returned"
    /\ Len(self.joints[1].names) = 0
    /\ Len(self.meshes[1]) >= 1
    /\ Len(self.meshes[1][1].joints[1]) >= 1
    /\ self.meshes[1][1].joints[1][1] = 0
    /\ Words(self.meshes[1][1].at.weights + 1)[2] = "2"

\* the number of float values on the lines of a frame
RECURSIVE FloatsOf(_, _)
FloatsOf(at, n) == IF n = 0 THEN 0 ELSE FloatsOf(at, n - 1) + Len(Words(at + n))

Optional(w, j) == IF j <= Len(w) THEN Some(FloatVal(w[j])) ELSE None

\* the bones of the frames returned are the lines of their blocks
FramesAsWritten ==
    (kind = "anim" /\ pc = "returned") =>
        /\ loc.num_animated_components = Declared("numAnimatedComponents")
        /\ \A f \in 1..Len(self.frames[1]) :
               LET frame == self.frames[1][f]
                   n == Len(frame.positions[1])
               IN  /\ Words(frame.at)[1] = "frame"
                   /\ Len(frame.orientations[1]) = n
                   /\ Words(frame.at + n + 1)[1] = "}"
                   /\ \A k \in 1..n :
                          LET w == Words(frame.at + k)
                          IN  /\ w[1] # "}"
                              /\ frame.positions[1][k] =
                                     <<Optional(w, 1), Optional(w, 2), Optional(w, 3)>>
                              /\ \A j \in 4..6 :
                                     frame.orientations[1][k][j - 3] = Optional(w, j)

\* a line of floats read inside a frame adds a bone and raises nothing
FrameLineAccepted ==
    LET line == SplitComment(Strip(raw[pos + 1]))
    IN  (/\ kind = "anim" /\ pc = "frame_line"
         /\ pos < Len(raw) /\ HasStatement(raw[pos + 1])
         /\ \A j \in 1..Len(Split(line)) : Split(line)[j] \in FloatWords)
        => /\ pc' = "frame_line"
           /\ err' = err
           /\ Len(loc'.list) = Len(loc.list) + 1

----------------------------------------------------------------------------
(* The vertex positions of the module md5.py: MD5_Mesh._process_mesh.       *)
(* Positions and offsets are in tenths, as every float of this model; a     *)
(* rotated vector is in thousandths and a weighted one in ten-thousandths,  *)
(* so that no product is rounded.                                           *)

MaxSkinWeights == 2  \* weights of a mesh block (skinning runs)

\* compute_quaternion_w of md5.py, on tenths: the root is negated
md5_compute_quaternion_w(x, y, z) ==
    LET w == 100 - (x * x) - (y * y) - (z * z)
    IN  IF w < 0 THEN 0 ELSE 0 - SqrtFrom(w, 0)

Cross(a, b) ==
    <<a[2] * b[3] - a[3] * b[2], a[3] * b[1] - a[1] * b[3], a[1] * b[2] - a[2] * b[1]>>

\* pyrr.quaternion.apply_to_vector( quat, vec ) for a unit quaternion
\* (w, x, y, z): v + 2w(q x v) + 2 q x (q x v), in thousandths
apply_to_vector(quat, vec) ==
    LET q == <<quat[2], quat[3], quat[4]>>
        c == Cross(q, vec)
        d == Cross(q, c)
    IN  [i \in 1..3 |-> 100 * vec[i] + 2 * quat[1] * c[i] + 2 * d[i]]

\* generate_positions.process_weight: (joint_pos + rotated_vector) * weight.weight
skin_process_weight(weight, joint) ==
    LET rotated_vector == apply_to_vector(joint.orientation, weight.position)
    IN  [i \in 1..3 |-> (100 * joint.position[i] + rotated_vector[i]) * weight.weight]

\* numpy.sum( positions, axis = 0 ) of a list of vectors that is not empty
RECURSIVE SumVectors(_)
SumVectors(vs) ==
    IF Len(vs) = 1 THEN vs[1]
    ELSE [i \in 1..3 |-> vs[1][i] + SumVectors(Tail(vs))[i]]

\* A mutant of generate_positions: the weights are taken from the start of
\* the list, not from the vertex's weight_index.
generate_positions_from_start(vertex, weights, joints) ==
    LET n == vertex.weights_elements
        InRange(index) ==
            /\ index + 1 <= Len(weights)
            /\ weights[index + 1].joint + 1 <= Len(joints)
        positions == [k \in 1..n |->
                         skin_process_weight(weights[k], joints[weights[k].joint + 1])]
    IN  IF \E index \in 0..(n - 1) : ~InRange(index) THEN Fails("IndexError")
        ELSE IF n <= 0 THEN Fails("TypeError")
        ELSE Ok(SumVectors(positions))

\* generate_positions( vertex, weights, joints ) of md5.py.  A list index
\* past the end raises IndexError; without weights numpy.sum gives a scalar
\* and list() of it raises TypeError.
generate_positions(vertex, weights, joints) ==
    LET n == vertex.weights_elements
        at(index) == vertex.weight_index + index + 1
        InRange(index) ==
            /\ at(index) <= Len(weights)
            /\ weights[at(index)].joint + 1 <= Len(joints)
        positions == [k \in 1..n |->
                         skin_process_weight(weights[at(k - 1)],
                                             joints[weights[at(k - 1)].joint + 1])]
    IN  IF \E index \in 0..(n - 1) : ~InRange(index) THEN Fails("IndexError")
        ELSE IF n <= 0 THEN Fails("TypeError")
        ELSE Ok(SumVectors(positions))

\* a joint as md5.py's process_joint returns it: the orientation is (w, x, y, z)
SkinJoint(position, quat) ==
    [position |-> position,
     orientation |-> <<md5_compute_quaternion_w(quat[1], quat[2], quat[3]),
                       quat[1], quat[2], quat[3]>>]

SkinJoints ==
    {<<SkinJoint(p, q), SkinJoint(<<0, 20, 0>>, <<0, 6, 0>>)>> :
         p \in {<<0, 0, 0>>, <<10, 0, 0>>}, q \in {<<0, 0, 0>>, <<0, 6, 0>>}}

\* a weight as md5.py's process_weight returns it
SkinWeightValues ==
    {[joint |-> j, weight |-> b[1], position |-> b[2]] :
         j \in 0..2,
         b \in {<<10, <<0, 0, 0>>>>, <<10, <<10, 0, 0>>>>, <<5, <<10, 0, 0>>>>}}

SkinVertices ==
    {[weight_index |-> i, weights_elements |-> n] :
         i \in 0..(MaxSkinWeights - 1), n \in 0..MaxSkinWeights}

InitSkin ==
    /\ kind = "skin"
    /\ raw = <<>>
    /\ pos = 0
    /\ yielded = <<>>
    /\ pc = "generate"
    /\ err = None
    /\ self = NoObject
    /\ loc \in [vertex : SkinVertices,
                weights : SeqsUpTo(SkinWeightValues, MaxSkinWeights),
                joints : SkinJoints]
    /\ cur = None
    /\ acc = <<>>
    /\ seek = NoSeek

\* one element of the list comprehension of md5.py 538-541; an exception
\* leaves _process_buffer and load_from_buffer re-raises it
SkinGenerate ==
    /\ kind = "skin" /\ pc = "generate"
    /\ LET r == generate_positions(loc.vertex, loc.weights, loc.joints)
       IN  IF r.exc # ""
           THEN err' = Some(Exception(r.exc)) /\ pc' = "raised" /\ UNCHANGED cur
           ELSE cur' = Some(r.val) /\ pc' = "generated" /\ UNCHANGED err
    /\ UNCHANGED <<kind, raw, pos, yielded, self, loc, acc, seek>>

\* the package's mesh loader and the module's skinning, side by side
SpecSkin == (InitSkin \/ InitMesh) /\ [][SkinGenerate \/ MeshNext]_vars

----------------------------------------------------------------------------
(* C13: the derived vertex positions.                                      *)

\* (joint.position + rotate(joint.orientation, weight.local_position)) *
\* weight.bias for the index-th weight of the vertex, in ten-thousandths
SkinTerm(index) ==
    LET weight == loc.weights[loc.vertex.weight_index + index + 1]
        joint == loc.joints[weight.joint + 1]
        rotated == apply_to_vector(joint.orientation, weight.position)
    IN  [i \in 1..3 |-> (100 * joint.position[i] + rotated[i]) * weight.weight]

\* the sum of the first n terms
RECURSIVE SkinSum(_)
SkinSum(n) ==
    IF n = 0 THEN <<0, 0, 0>>
    ELSE [i \in 1..3 |-> SkinSum(n - 1)[i] + SkinTerm(n - 1)[i]]

\* the weights and joints that the vertex names exist
SkinInRange ==
    \A index \in 0..(loc.vertex.weights_elements - 1) :
        /\ loc.vertex.weight_index + index + 1 <= Len(loc.weights)
        /\ loc.weights[loc.vertex.weight_index + index + 1].joint + 1 <= Len(loc.joints)

\* md5.py: the position generated for a vertex is the sum over its weights
ModulePositionsAreWeightedSums ==
    /\ (kind = "skin" /\ pc = "generated") =>
           LET n == loc.vertex.weights_elements
               weight == loc.weights[loc.vertex.weight_index + 1]
               joint == loc.joints[weight.joint + 1]
           IN  /\ n >= 1 /\ SkinInRange
               /\ cur[1] = SkinSum(n)
               /\ (n = 1 /\ weight.weight = 10 /\ weight.position = <<0, 0, 0>>) =>
                      cur[1] = [i \in 1..3 |-> 1000 * joint.position[i]]
               /\ (/\ n = 1 /\ weight.weight = 10 /\ joint.position = <<0, 0, 0>>
                   /\ SubSeq(joint.orientation, 2, 4) = <<0, 0, 0>>) =>
                      cur[1] = [i \in 1..3 |-> 1000 * weight.position[i]]
    /\ (kind = "skin" /\ pc = "raised") =>
           /\ cur = None
           /\ loc.vertex.weights_elements = 0 \/ ~SkinInRange

\* the position the claim derives for vertex k of a submesh of the package's
\* loader, in ten-thousandths; the package keeps orientations as (x, y, z, w)
RECURSIVE SubMeshSkinSum(_, _, _)
SubMeshSkinSum(m, k, n) ==
    IF n = 0 THEN <<0, 0, 0>>
    ELSE LET w == m.start_weights[1][k] + n
             j == m.joints[1][w] + 1
             o == self.joints[1].orientations[j]
             rotated == apply_to_vector(<<o[4], o[1], o[2], o[3]>>, m.positions[1][w])
         IN  [i \in 1..3 |->
                 SubMeshSkinSum(m, k, n - 1)[i]
                 + (100 * self.joints[1].positions[j][i] + rotated[i]) * m.biases[1][w]]

SubMeshInRange(m, k) ==
    \A n \in 1..m.weight_counts[1][k] :
        /\ m.start_weights[1][k] + n \in 1..Len(m.joints[1])
        /\ m.joints[1][m.start_weights[1][k] + n] + 1 \in 1..Len(self.joints[1].names)

----------------------------------------------------------------------------
(* C14: compute_quaternion_w, of common.py and of md5.py, on every triple   *)
(* of components in tenths up to MaxQuat.                                    *)

MaxQuat == 11        \* magnitude of a quaternion component, in tenths

InitQuat ==
    /\ kind = "quat"
    /\ raw = <<>>
    /\ pos = 0
    /\ yielded = <<>>
    /\ pc = "call"
    /\ err = None
    /\ self = NoObject
    /\ loc \in [x : (0 - MaxQuat)..MaxQuat, y : (0 - MaxQuat)..MaxQuat,
                z : (0 - MaxQuat)..MaxQuat]
    /\ cur = None
    /\ acc = <<>>
    /\ seek = NoSeek

\* a call of common.compute_quaternion_w
QuatCommon ==
    /\ kind = "quat" /\ pc = "call"
    /\ cur' = Some(compute_quaternion_w(loc.x, loc.y, loc.z))
    /\ pc' = "common"
    /\ UNCHANGED <<kind, raw, pos, yielded, err, self, loc, acc, seek>>

\* a call of md5.py's compute_quaternion_w
QuatModule ==
    /\ kind = "quat" /\ pc = "call"
    /\ cur' = Some(md5_compute_quaternion_w(loc.x, loc.y, loc.z))
    /\ pc' = "module"
    /\ UNCHANGED <<kind, raw, pos, yielded, err, self, loc, acc, seek>>

SpecQuat == InitQuat /\ [][QuatCommon \/ QuatModule]_vars

\* t = 1 - x*x - y*y - z*z, in hundredths
QuatT == 100 - (loc.x * loc.x) - (loc.y * loc.y) - (loc.z * loc.z)

----------------------------------------------------------------------------
(* The Wavefront OBJ loader: obj/common.py, obj/mesh.py and the loop of    *)
(* obj/__init__.py.  A statement is a line of words with single spaces     *)
(* between them.  Python's objects are held in a store: a submesh is a     *)
(* dictionary, its points, lines and faces are lists, and meshes,          *)
(* _current_mesh and the dictionaries hold references into the store, so   *)
(* that two dictionaries can hold the same list.  A handler works on       *)
(* s = [data, store, exc, args]: the OBJ_Mesh object, the store, and the   *)
(* type and arguments of the exception it raised ("" when it returned).    *)

MaxObjVertices == 2   \* v statements of a file
MaxObjCoords == 1     \* vt and vn statements of a file
MaxObjElements == 2   \* p, l and f statements of a file
MaxObjGroupings == 2  \* o, g, s, usemtl and usemap statements of a file
MaxObjSkipped == 1    \* statements of a file other than v, vt, vn, elements and groupings
MaxObjStatements == 4 \* statements of a file

\* str.split('/') on the index words of this model's files
SplitSlash(w) ==
    CASE w = "1/-1" -> <<"1", "-1">>
      [] w = "1//-1" -> <<"1", "", "-1">>
      [] w = "-1/-1/-1" -> <<"-1", "-1", "-1">>
      [] OTHER -> <<w>>

\* OBJ_Mesh.__init__
NewObjMesh ==
    [vertices |-> <<>>, texture_coords |-> <<>>, normals |-> <<>>,
     names |-> {}, groups |-> {}, materials |-> {}, textures |-> {},
     meshes |-> <<>>, shadow |-> None, trace |-> None, _current_mesh |-> None]

NewStore == [dicts |-> <<>>, lists |-> <<>>]

ObjRaise(s, type, args) == [s EXCEPT !.exc = type, !.args = args]

\* the dictionary that _current_mesh refers to
CurrentDict(s) == s.store.dicts[s.data._current_mesh[1]]

\* _create_mesh: a new dictionary that holds three new empty lists
_create_mesh(store) ==
    LET n == Len(store.lists)
    IN  [dicts |-> Append(store.dicts,
                          [name |-> None, groups |-> <<"default">>, smoothing |-> None,
                           material |-> None, texture |-> None,
                           points |-> n + 1, lines |-> n + 2, faces |-> n + 3]),
         lists |-> store.lists \o <<<<>>, <<>>, <<>>>>]

\* A mutant of _ensure_current_mesh: the submesh made is not added to meshes.
_ensure_current_mesh_unlisted(s) ==
    IF s.data._current_mesh # None THEN s
    ELSE LET ref == Len(s.store.dicts) + 1
         IN  [s EXCEPT !.store = _create_mesh(s.store),
                       !.data._current_mesh = Some(ref)]

\* _ensure_current_mesh, with _add_mesh_to_list
_ensure_current_mesh(s) ==
    IF s.data._current_mesh # None THEN s
    ELSE LET ref == Len(s.store.dicts) + 1
         IN  [s EXCEPT !.store = _create_mesh(s.store),
                       !.data._current_mesh = Some(ref),
                       !.data.meshes = Append(@, ref)]

_current_mesh_has_data(s) ==
    IF s.data._current_mesh = None THEN FALSE
    ELSE \/ Len(s.store.lists[CurrentDict(s).points]) > 0
         \/ Len(s.store.lists[CurrentDict(s).lines]) > 0
         \/ Len(s.store.lists[CurrentDict(s).faces]) > 0

\* _push_current_mesh: dict.copy() makes a new dictionary whose keys refer to
\* the values of the old one; the name _create_mesh of the other branch is
\* not defined at module level
_push_current_mesh(s) ==
    IF s.data._current_mesh # None
    THEN LET ref == Len(s.store.dicts) + 1
         IN  [s EXCEPT !.store.dicts = Append(@, CurrentDict(s)),
                       !.data._current_mesh = Some(ref),
                       !.data.meshes = Append(@, ref)]
    ELSE ObjRaise(s, "NameError", <<"_create_mesh">>)

\* the opening lines of _parse_o, _parse_g, _parse_s, _parse_usemap and
\* _parse_usemtl
PushOrEnsure(s) ==
    IF _current_mesh_has_data(s) THEN _push_current_mesh(s) ELSE _ensure_current_mesh(s)

\* self._current_mesh[ key ] = value
SetCurrent(s, d) == [s EXCEPT !.store.dicts[s.data._current_mesh[1]] = d]

\* map( float, values ), in tenths
Floats(values) == [i \in 1..Len(values) |-> FloatVal(values[i])]
AllFloats(values) == \A i \in 1..Len(values) : values[i] \in FloatWords

_parse_v(s, statement) ==
    IF Len(Split1(statement)) # 2 THEN ObjRaise(s, "ValueError", <<>>)
    ELSE LET values == Split(Split1(statement)[2])
             floats == Floats(values)
         IN  IF ~AllFloats(values) THEN ObjRaise(s, "ValueError", <<>>)
             ELSE IF Len(floats) = 4 /\ floats[4] = 0
             THEN ObjRaise(s, "ZeroDivisionError", <<>>)
             ELSE IF Len(floats) = 4
             THEN [s EXCEPT !.data.vertices =
                                Append(@, [i \in 1..3 |-> floats[i] * 3])]
             ELSE [s EXCEPT !.data.vertices = Append(@, floats)]

_parse_vt(s, statement) ==
    IF Len(Split1(statement)) # 2 THEN ObjRaise(s, "ValueError", <<>>)
    ELSE LET values == Split(Split1(statement)[2])
         IN  IF ~AllFloats(values) THEN ObjRaise(s, "ValueError", <<>>)
             ELSE [s EXCEPT !.data.texture_coords = Append(@, Floats(values))]

\* floats[ i ] *= 1.0 / floats[ 3 ], in tenths
_parse_vn(s, statement) ==
    IF Len(Split1(statement)) # 2 THEN ObjRaise(s, "ValueError", <<>>)
    ELSE LET values == Split(Split1(statement)[2])
             floats == Floats(values)
         IN  IF ~AllFloats(values) THEN ObjRaise(s, "ValueError", <<>>)
             ELSE IF Len(floats) = 4 /\ floats[4] = 0
             THEN ObjRaise(s, "ZeroDivisionError", <<>>)
             ELSE IF Len(floats) = 4
             THEN [s EXCEPT !.data.normals =
                                Append(@, [i \in 1..3 |-> (floats[i] * 10) \div floats[4]])]
             ELSE [s EXCEPT !.data.normals = Append(@, floats)]

\* A mutant of _convert_indice: a positive index is kept as written.
_convert_indice_one_based(data, value) ==
    IF value = None THEN Ok(None)
    ELSE IF value[1] = "" THEN Ok(None)
    ELSE IF value[1] \notin IntWords THEN Fails("ValueError")
    ELSE LET n == IntVal(value[1])
         IN  IF n > 0 THEN Ok(Some(n))
             ELSE IF n < 0 THEN Ok(Some(Len(data.vertices) + n))
             ELSE Fails("AssertionError")

\* A mutant of _convert_indice: an index outside the vertices parsed so far
\* is refused.
_convert_indice_checked(data, value) ==
    IF value = None THEN Ok(None)
    ELSE IF value[1] = "" THEN Ok(None)
    ELSE IF value[1] \notin IntWords THEN Fails("ValueError")
    ELSE LET n == IntVal(value[1])
             index == IF n > 0 THEN n - 1 ELSE Len(data.vertices) + n
         IN  IF n = 0 THEN Fails("AssertionError")
             ELSE IF index \notin 0..(Len(data.vertices) - 1) THEN Fails("IndexError")
             ELSE Ok(Some(index))

\* _convert_indice; value is None or Some(word), the result None or Some(index)
_convert_indice(data, value) ==
    IF value = None THEN Ok(None)
    ELSE IF value[1] = "" THEN Ok(None)
    ELSE IF value[1] \notin IntWords THEN Fails("ValueError")
    ELSE LET n == IntVal(value[1])
         IN  IF n > 0 THEN Ok(Some(n - 1))
             ELSE IF n < 0 THEN Ok(Some(Len(data.vertices) + n))
             ELSE Fails("AssertionError")

\* value.split( '/' ), extended to three values with None
Padded(w) ==
    LET parts == SplitSlash(w)
    IN  [i \in 1..Len(parts) |-> Some(parts[i])] \o [i \in 1..(3 - Len(parts)) |-> None]

\* the exception of the first conversion that raises one, "" when none does
RECURSIVE FirstExc(_)
FirstExc(results) ==
    IF results = <<>> THEN ""
    ELSE IF Head(results).exc # "" THEN Head(results).exc
    ELSE FirstExc(Tail(results))

RECURSIVE Flatten(_)
Flatten(lists) == IF lists = <<>> THEN <<>> ELSE Head(lists) \o Flatten(Tail(lists))

\* _convert_indices: one tuple of indices for each word
_convert_indices(data, values) ==
    LET conv == [i \in 1..Len(values) |->
                    [k \in 1..Len(Padded(values[i])) |->
                        _convert_indice(data, Padded(values[i])[k])]]
        exc == FirstExc(Flatten(conv))
    IN  IF exc # "" THEN Fails(exc)
        ELSE Ok([i \in 1..Len(values) |-> [k \in 1..Len(conv[i]) |-> conv[i][k].val]])

_parse_p(s, statement) ==
    IF Len(Split1(statement)) # 2 THEN ObjRaise(s, "ValueError", <<>>)
    ELSE LET t == _ensure_current_mesh(s)
             indices == _convert_indices(t.data, Split(Split1(statement)[2]))
         IN  IF indices.exc # "" THEN ObjRaise(t, indices.exc, <<>>)
             ELSE [t EXCEPT !.store.lists[CurrentDict(t).points] = @ \o indices.val]

_parse_l(s, statement) ==
    IF Len(Split1(statement)) # 2 THEN ObjRaise(s, "ValueError", <<>>)
    ELSE LET t == _ensure_current_mesh(s)
             indices == _convert_indices(t.data, Split(Split1(statement)[2]))
         IN  IF indices.exc # "" THEN ObjRaise(t, indices.exc, <<>>)
             ELSE [t EXCEPT !.store.lists[CurrentDict(t).lines] = Append(@, indices.val)]

_parse_f(s, statement) ==
    IF Len(Split1(statement)) # 2 THEN ObjRaise(s, "ValueError", <<>>)
    ELSE LET t == _ensure_current_mesh(s)
             indices == _convert_indices(t.data, Split(Split1(statement)[2]))
         IN  IF indices.exc # "" THEN ObjRaise(t, indices.exc, <<>>)
             ELSE [t EXCEPT !.store.lists[CurrentDict(t).faces] = Append(@, indices.val)]

_parse_o(s, statement) ==
    IF Len(Split(statement)) # 2 THEN ObjRaise(s, "ValueError", <<>>)
    ELSE LET value == Split(statement)[2]
             t == PushOrEnsure(s)
         IN  IF t.exc # "" THEN t
             ELSE [SetCurrent(t, [CurrentDict(t) EXCEPT !.name = Some(value)])
                      EXCEPT !.data.names = @ \cup {value}]

_parse_g(s, statement) ==
    LET values == IF Len(Split(statement)) > 1 THEN Tail(Split(statement))
                  ELSE <<"default">>
        t == PushOrEnsure(s)
    IN  IF t.exc # "" THEN t
        ELSE [SetCurrent(t, [CurrentDict(t) EXCEPT !.groups = values])
                 EXCEPT !.data.groups = @ \cup {values[i] : i \in 1..Len(values)}]

_parse_s(s, statement) ==
    IF Len(Split(statement)) # 2 THEN ObjRaise(s, "ValueError", <<>>)
    ELSE LET value == Split(statement)[2]
             t == PushOrEnsure(s)
         IN  IF t.exc # "" THEN t
             ELSE IF value \in {"off", "0"}
             THEN SetCurrent(t, [CurrentDict(t) EXCEPT !.smoothing = None])
             ELSE IF value \notin IntWords THEN ObjRaise(t, "ValueError", <<>>)
             ELSE SetCurrent(t, [CurrentDict(t) EXCEPT !.smoothing = Some(IntVal(value))])

_parse_usemap(s, statement) ==
    IF Len(Split1(statement)) # 2 THEN ObjRaise(s, "ValueError", <<>>)
    ELSE LET t == PushOrEnsure(s)
         IN  IF t.exc # "" THEN t
             ELSE SetCurrent(t, [CurrentDict(t) EXCEPT !.texture = Some(Split1(statement)[2])])

_parse_usemtl(s, statement) ==
    IF Len(Split1(statement)) # 2 THEN ObjRaise(s, "ValueError", <<>>)
    ELSE LET t == PushOrEnsure(s)
         IN  IF t.exc # "" THEN t
             ELSE SetCurrent(t, [CurrentDict(t) EXCEPT !.material = Some(Split1(statement)[2])])

\* A mutant of the handlers that only raise: the message is the one of a
\* statement type without a handler.
NotSupportedAsUnknown(s, statement) ==
    ObjRaise(s, "NotImplementedError",
             <<"Command \"%s\" is unknown", Split1(statement)[1]>>)

\* _parse_csh, _parse_vp and the other handlers of statements that the
\* loader does not implement
NotSupported(s, statement) ==
    ObjRaise(s, "NotImplementedError", <<"\"%s\" not supported", Split1(statement)[1]>>)

\* the statement types whose handler does nothing but raise
ObjNotSupported ==
    {"csh", "vp", "cstype", "deg", "bmat", "step", "curv", "curv2", "surf", "parm",
     "trim", "hole", "scrv", "sp", "end", "con", "mg", "bevel", "c_interp",
     "d_interp", "lod", "ctech", "stech", "bsp", "bzp", "cdc", "res", "pl", "lp",
     "lq", "ld", "c"}

\* process_filename_list: re.split( r'\W+\.\W+', values ) finds nothing to
\* split at in a file name of this model's files
process_filename_list(values) == {values}

_parse_maplib(s, statement) ==
    IF Len(Split1(statement)) # 2 THEN ObjRaise(s, "ValueError", <<>>)
    ELSE [s EXCEPT !.data.textures = @ \cup process_filename_list(Split1(statement)[2])]

_parse_mtllib(s, statement) ==
    IF Len(Split1(statement)) # 2 THEN ObjRaise(s, "ValueError", <<>>)
    ELSE [s EXCEPT !.data.materials = @ \cup process_filename_list(Split1(statement)[2])]

_parse_shadow_obj(s, statement) ==
    IF Len(Split(statement)) # 2 THEN ObjRaise(s, "ValueError", <<>>)
    ELSE [s EXCEPT !.data.shadow = Some(Split(statement)[2])]

_parse_trace_obj(s, statement) ==
    IF Len(Split(statement)) # 2 THEN ObjRaise(s, "ValueError", <<>>)
    ELSE [s EXCEPT !.data.trace = Some(Split(statement)[2])]

\* A mutant of parse_statement: the attribute lookup has no default, and a
\* statement type without a handler ends in its AttributeError.
parse_statement_no_default(s, statement) ==
    LET type == Split(statement)[1]
    IN  CASE type = "v" -> _parse_v(s, statement)
          [] type = "vt" -> _parse_vt(s, statement)
          [] type = "vn" -> _parse_vn(s, statement)
          [] type = "p" -> _parse_p(s, statement)
          [] type = "l" -> _parse_l(s, statement)
          [] type \in {"f", "fo"} -> _parse_f(s, statement)
          [] type = "o" -> _parse_o(s, statement)
          [] type = "g" -> _parse_g(s, statement)
          [] type = "s" -> _parse_s(s, statement)
          [] type = "maplib" -> _parse_maplib(s, statement)
          [] type = "usemap" -> _parse_usemap(s, statement)
          [] type = "mtllib" -> _parse_mtllib(s, statement)
          [] type = "usemtl" -> _parse_usemtl(s, statement)
          [] type = "call" -> ObjRaise(s, "AssertionError", <<>>)
          [] type = "shadow_obj" -> _parse_shadow_obj(s, statement)
          [] type = "trace_obj" -> _parse_trace_obj(s, statement)
          [] type \in ObjNotSupported -> NotSupported(s, statement)
          [] OTHER -> ObjRaise(s, "AttributeError", <<>>)

\* OBJ_Loader.parse_statement: getattr finds the handler _parse_<type> of
\* OBJ_Mesh, or None
parse_statement(s, statement) ==
    LET type == Split(statement)[1]
    IN  CASE type = "v" -> _parse_v(s, statement)
          [] type = "vt" -> _parse_vt(s, statement)
          [] type = "vn" -> _parse_vn(s, statement)
          [] type = "p" -> _parse_p(s, statement)
          [] type = "l" -> _parse_l(s, statement)
          [] type \in {"f", "fo"} -> _parse_f(s, statement)
          [] type = "o" -> _parse_o(s, statement)
          [] type = "g" -> _parse_g(s, statement)
          [] type = "s" -> _parse_s(s, statement)
          [] type = "maplib" -> _parse_maplib(s, statement)
          [] type = "usemap" -> _parse_usemap(s, statement)
          [] type = "mtllib" -> _parse_mtllib(s, statement)
          [] type = "usemtl" -> _parse_usemtl(s, statement)
          [] type = "call" -> ObjRaise(s, "AssertionError", <<>>)
          [] type = "shadow_obj" -> _parse_shadow_obj(s, statement)
          [] type = "trace_obj" -> _parse_trace_obj(s, statement)
          [] type \in ObjNotSupported -> NotSupported(s, statement)
          [] OTHER -> ObjRaise(s, "NotImplementedError",
                               <<"Command \"%s\" is unknown", type>>)

----------------------------------------------------------------------------
(* The loop of OBJ._parse_obj_mesh over the statements of a file.  The     *)
(* file is read one statement at a time; what a statement may be is        *)
(* bounded by the Max constants above.  self is the OBJ_Mesh, acc the      *)
(* store, cur the statement last read, err the exception it raised, and    *)
(* loc counts statements: elements, groupings, skipped, and since, the     *)
(* p, l and f statements handled since _current_mesh last changed (none    *)
(* of the counts is a variable of the program).                            *)

\* a statement as process_obj_buffer yields it: stripped, its words one
\* space apart
Stmt(words) == Join(words)

ElementTypes == {"p", "l", "f", "fo"}
GroupingTypes == {"o", "g", "s", "usemtl", "usemap"}

InitObj ==
    /\ kind = "obj"
    /\ raw = <<>>
    /\ pos = 0
    /\ yielded = <<>>
    /\ pc = "statement"
    /\ err = None
    /\ self = NewObjMesh
    /\ loc = [since |-> 0, elements |-> 0, groupings |-> 0, skipped |-> 0]
    /\ cur = None
    /\ acc = NewStore
    /\ seek = NoSeek

\* the rest of a pass of the loop, r being what parse_statement has made of
\* the OBJ_Mesh and the store: NotImplementedError is caught and printed,
\* any other exception leaves _parse_obj_mesh
Passed(statement, type, r) ==
    /\ self' = r.data
    /\ acc' = r.store
    /\ err' = IF r.exc = "" THEN None ELSE Some([type |-> r.exc, args |-> r.args])
    /\ pc' = IF r.exc \in {"", "NotImplementedError"} THEN "statement" ELSE "raised"
    /\ loc' = [since |-> (IF r.data._current_mesh # self._current_mesh
                          THEN 0 ELSE loc.since)
                         + (IF type \in ElementTypes /\ r.exc = "" THEN 1 ELSE 0),
               elements |-> loc.elements + (IF type \in ElementTypes THEN 1 ELSE 0),
               groupings |-> loc.groupings + (IF type \in GroupingTypes THEN 1 ELSE 0),
               skipped |-> loc.skipped +
                           (IF type \notin ElementTypes \cup GroupingTypes
                                           \cup {"v", "vt", "vn"} THEN 1 ELSE 0)]
    /\ pos' = pos + 1
    /\ cur' = Some(statement)
    /\ UNCHANGED <<kind, raw, yielded, seek>>

\* one pass of the loop: parse_statement in its try block
ObjStatement(statement) ==
    /\ kind = "obj" /\ pc = "statement"
    /\ pos < MaxObjStatements
    /\ Passed(statement, Split(statement)[1],
              parse_statement([data |-> self, store |-> acc, exc |-> "", args |-> <<>>],
                              statement))

ObjV ==
    \E st \in {Stmt(<<"v", "1", "0", "0">>)} :
        Len(self.vertices) < MaxObjVertices /\ ObjStatement(st)
ObjVt ==
    \E st \in {Stmt(<<"vt", "0", "1">>)} :
        Len(self.texture_coords) + Len(self.normals) < MaxObjCoords /\ ObjStatement(st)
ObjVn ==
    \E st \in {Stmt(<<"vn", "0", "0", "1">>)} :
        Len(self.texture_coords) + Len(self.normals) < MaxObjCoords /\ ObjStatement(st)
ObjP ==
    \E st \in {Stmt(<<"p", "1">>)} :
        loc.elements < MaxObjElements /\ ObjStatement(st)
ObjL ==
    \E st \in {Stmt(<<"l", "-1", "-2">>)} :
        loc.elements < MaxObjElements /\ ObjStatement(st)
ObjF ==
    \E st \in {Stmt(<<"f", "1", "2", "3">>), Stmt(<<"f", "1/-1", "1//-1">>),
               Stmt(<<"f", "0">>)} :
        loc.elements < MaxObjElements /\ ObjStatement(st)
ObjO ==
    \E st \in {Stmt(<<"o", "a">>)} :
        loc.groupings < MaxObjGroupings /\ ObjStatement(st)
ObjG ==
    \E st \in {Stmt(<<"g", "b">>)} :
        loc.groupings < MaxObjGroupings /\ ObjStatement(st)
ObjS ==
    \E st \in {Stmt(<<"s", "1">>)} :
        loc.groupings < MaxObjGroupings /\ ObjStatement(st)
ObjUsemtl ==
    \E st \in {Stmt(<<"usemtl", "m">>)} :
        loc.groupings < MaxObjGroupings /\ ObjStatement(st)
ObjUsemap ==
    \E st \in {Stmt(<<"usemap", "t">>)} :
        loc.groupings < MaxObjGroupings /\ ObjStatement(st)
ObjCsh ==
    \E st \in {Stmt(<<"csh", "x">>)} :
        loc.skipped < MaxObjSkipped /\ ObjStatement(st)
ObjVp ==
    \E st \in {Stmt(<<"vp", "0", "0">>)} :
        loc.skipped < MaxObjSkipped /\ ObjStatement(st)
ObjUnknown ==
    \E st \in {Stmt(<<"zz", "1">>)} :
        loc.skipped < MaxObjSkipped /\ ObjStatement(st)

\* a pass of the loop on a call statement: the loop handles it itself.  The
\* file is opened (IOError when there is none) and pushed with
\* statements.push; statements is the generator that process_obj_buffer
\* returned, and a generator has no attribute push.
ObjCall ==
    \E st \in {Stmt(<<"call", "x">>), Stmt(<<"call">>)} :
    \E opened \in BOOLEAN :
        /\ kind = "obj" /\ pc = "statement"
        /\ pos < MaxObjStatements /\ loc.skipped < MaxObjSkipped
        /\ err' = Some(Exception(IF Len(Split(st)) < 2 THEN "IndexError"
                                 ELSE IF opened THEN "AttributeError" ELSE "IOError"))
        /\ pc' = "raised"
        /\ loc' = [loc EXCEPT !.skipped = @ + 1]
        /\ pos' = pos + 1
        /\ cur' = Some(st)
        /\ UNCHANGED <<kind, raw, yielded, self, acc, seek>>

ObjMtllib ==
    \E st \in {Stmt(<<"mtllib", "m">>)} :
        loc.skipped < MaxObjSkipped /\ ObjStatement(st)
ObjMaplib ==
    \E st \in {Stmt(<<"maplib", "t">>)} :
        loc.skipped < MaxObjSkipped /\ ObjStatement(st)

\* the end of the file: `data._current_mesh = None; return data`
ObjReturn ==
    /\ kind = "obj" /\ pc = "statement"
    /\ self' = [self EXCEPT !._current_mesh = None]
    /\ pc' = "returned"
    /\ UNCHANGED <<kind, raw, pos, yielded, err, loc, cur, acc, seek>>

ObjNext ==
    \/ ObjV \/ ObjVt \/ ObjVn \/ ObjP \/ ObjL \/ ObjF
    \/ ObjO \/ ObjG \/ ObjS \/ ObjUsemtl \/ ObjUsemap
    \/ ObjCsh \/ ObjVp \/ ObjUnknown \/ ObjCall \/ ObjMtllib \/ ObjMaplib \/ ObjReturn

SpecObj == InitObj /\ [][ObjNext]_vars

----------------------------------------------------------------------------
(* Claims about the submeshes of OBJ_Mesh.                                 *)

\* the type of the statement that a pass of the loop has just handled
Handled(types) ==
    /\ kind = "obj" /\ pos' = pos + 1
    /\ Split(cur'[1])[1] \in types
    /\ err' = None

\* the points, lines and faces of submesh i of meshes
Geometry(data, store, i) ==
    LET d == store.dicts[data.meshes[i]]
    IN  <<store.lists[d.points], store.lists[d.lines], store.lists[d.faces]>>

\* a pass of the loop has added a submesh to a model that had a current one
SplitMade == self._current_mesh # None /\ Len(self'.meshes) = Len(self.meshes) + 1

\* C15: a grouping statement (o, g, s, usemtl, usemap) starts a new submesh
\* exactly when the current submesh has received a p, l or f statement since
\* it became current; otherwise it edits the current submesh (or makes the
\* first one) and meshes gets no second entry.
C15_GroupingSplitsOnOwnGeometry ==
    [][Handled(GroupingTypes) =>
          /\ SplitMade <=> (self._current_mesh # None /\ loc.since > 0)
          /\ ~SplitMade =>
                Len(self'.meshes) = (IF self._current_mesh = None
                                     THEN Len(self.meshes) + 1 ELSE Len(self.meshes))]_vars

\* C16: the submesh that a split makes has no points, lines or faces, and a
\* p, l or f statement changes the geometry of no submesh but the current
\* one.
C16_GeometryBelongsToOneSubmesh ==
    [][/\ (Handled(GroupingTypes) /\ SplitMade) =>
              Geometry(self', acc', Len(self'.meshes)) = <<<<>>, <<>>, <<>>>>
       /\ Handled(ElementTypes) =>
              \A i \in 1..Len(self.meshes) :
                  Some(self.meshes[i]) # self'._current_mesh =>
                      Geometry(self', acc', i) = Geometry(self, acc, i)]_vars

----------------------------------------------------------------------------
(* Claims about the indices of p, l and f statements.                      *)

\* the index that word number k of an index triple stands for, counted
\* against a list of the given length; None when the triple has no such word
Resolved(w, k, length) ==
    IF k > Len(SplitSlash(w)) \/ SplitSlash(w)[k] = "" THEN None
    ELSE IF IntVal(SplitSlash(w)[k]) > 0 THEN Some(IntVal(SplitSlash(w)[k]) - 1)
    ELSE Some(length + IntVal(SplitSlash(w)[k]))

\* the tuples that the element statement just handled has stored, one for
\* each of its index words
Stored ==
    LET words == Split(Split1(cur'[1])[2])
        d == acc'.dicts[self'._current_mesh[1]]
        points == acc'.lists[d.points]
    IN  CASE Split(cur'[1])[1] = "p" ->
                 SubSeq(points, Len(points) - Len(words) + 1, Len(points))
          [] Split(cur'[1])[1] = "l" -> acc'.lists[d.lines][Len(acc'.lists[d.lines])]
          [] OTHER -> acc'.lists[d.faces][Len(acc'.lists[d.faces])]

\* the example of five parsed vertices and the words -1 -2 -3
FiveVertices == [NewObjMesh EXCEPT !.vertices = [i \in 1..5 |-> <<10, 0, 0>>]]

\* C17: a p, l or f statement stores, for each index word, the vertex index
\* n - 1 for a positive n and (vertices parsed so far) - k for a negative
\* -k; a later v statement changes no stored index; with five vertices the
\* words -1 -2 -3 give 4, 3, 2.
C17_VertexIndexResolvedAtParse ==
    [][/\ Handled(ElementTypes) =>
              LET words == Split(Split1(cur'[1])[2])
              IN  /\ Len(Stored) = Len(words)
                  /\ \A i \in 1..Len(words) :
                         Stored[i][1] = Resolved(words[i], 1, Len(self.vertices))
       /\ Handled({"v"}) => (acc' = acc /\ self'.meshes = self.meshes)
       /\ _convert_indices(FiveVertices, <<"-1", "-2", "-3">>).val
              = <<<<Some(4), None, None>>, <<Some(3), None, None>>,
                  <<Some(2), None, None>>>>]_vars

\* a line whose indices -1 and -2 were resolved against two vertices, before
\* another statement was read
C17_Witness ==
    /\ kind = "obj" /\ pc = "statement" /\ err = None
    /\ cur = Some(Stmt(<<"l", "-1", "-2">>))
    /\ Len(self.vertices) = 2
    /\ acc.lists[CurrentDict([data |-> self, store |-> acc]).lines]
           = <<<<<<Some(1), None, None>>, <<Some(0), None, None>>>>>>

\* C18: in an index triple of a p, l or f statement a negative texture
\* coordinate index counts from the end of texture_coords and a negative
\* normal index from the end of normals.
C18_EachIndexUsesItsOwnList ==
    [][Handled(ElementTypes) =>
          LET words == Split(Split1(cur'[1])[2])
          IN  \A i \in 1..Len(words) :
                  /\ Stored[i][2] = Resolved(words[i], 2, Len(self.texture_coords))
                  /\ Stored[i][3] = Resolved(words[i], 3, Len(self.normals))]_vars

----------------------------------------------------------------------------
(* Claims about the statements that OBJ_Mesh does not handle.              *)

\* the statement types whose handler does more than raise
ObjImplemented ==
    {"v", "vt", "vn", "p", "l", "f", "fo", "o", "g", "s", "maplib", "usemap",
     "mtllib", "usemtl", "call", "shadow_obj", "trace_obj"}

\* a pass of the loop has read a statement of one of the types given
Read(types) == kind = "obj" /\ pos' = pos + 1 /\ Split(cur'[1])[1] \in types

\* a pass of the loop has read a statement whose type has no handler
ReadUnknown ==
    kind = "obj" /\ pos' = pos + 1
    /\ Split(cur'[1])[1] \notin ObjImplemented \cup ObjNotSupported

----------------------------------------------------------------------------
(* Claims about the call statement.                                        *)

\* C21: a call statement that names a file that can be opened does not end
\* the parse: the loop goes on to another statement (the first of the
\* called file), and the call statement is not handed to parse_statement,
\* whose handler _parse_call would end in an AssertionError.
C21_CallInjectsFile ==
    [][(/\ Read({"call"})
        /\ Len(Split(cur'[1])) >= 2
        /\ err' # Some(Exception("IOError"))) =>
          /\ pc' = "statement"
          /\ err' = None
          /\ self' = self /\ acc' = acc]_vars

----------------------------------------------------------------------------
(* Claims about the order in which the md5mesh loader reads its file.      *)

\* the place of a position of the mesh loader in the order of _process_buffer
MeshPhase(p) ==
    CASE p = "start" -> 1 [] p = "check_version" -> 2 [] p = "num_joints" -> 3
      [] p = "num_meshes" -> 4 [] p = "joints" -> 5 [] p = "joint" -> 6
      [] p = "mesh" -> 7 [] p = "shader" -> 8 [] p = "numverts" -> 9
      [] p = "vert" -> 10 [] p = "numtris" -> 11 [] p = "tri" -> 12
      [] p = "numweights" -> 13 [] p = "weight" -> 14 [] OTHER -> 15

\* a statement already handed out starts with the keyword
Passed_keyword(keyword) ==
    \E i \in 1..Len(yielded) : FirstWord(yielded[i]) = keyword

\* C22: the mesh loader goes through header, joints and the submeshes in
\* this order, each submesh as shader, vertices, triangles, weights; the
\* read position never goes back and the statements handed out stay handed
\* out; a keyword sought that only lines before the read position start
\* with is not found, and the load goes to its except clause.
C22_PhasesGoForward ==
    [][kind = "mesh" =>
          /\ pos' >= pos
          /\ Len(yielded') >= Len(yielded)
          /\ SubSeq(yielded', 1, Len(yielded)) = yielded
          /\ pc' # pc =>
                \/ pc' \in {"returned", "except"} /\ MeshPhase(pc) < 15
                \/ pc = "except" /\ pc' = "raised"
                \/ Len(acc') = Len(acc) /\ MeshPhase(pc') > MeshPhase(pc)
                \/ Len(acc') = Len(acc) + 1 /\ pc' = "mesh"
          /\ (seek' # seek /\ seek'.found) => pos' > pos
          /\ (Sought_keyword # "" /\ Absent(Sought_keyword)
                  /\ Passed_keyword(Sought_keyword)) =>
                (pc' = "except" /\ ~seek'.found /\ pos' >= Len(raw))]_vars

\* a load that failed seeking numJoints, which stands before the MD5Version
\* line of the file
C22_Witness ==
    /\ kind = "mesh" /\ pc = "raised"
    /\ seek.keyword = "numJoints" /\ ~seek.found
    /\ FirstWord(yielded[1]) = "numJoints"
    /\ FirstWord(yielded[2]) = "MD5Version"

----------------------------------------------------------------------------
(* Claims about the frame blocks of the md5anim loader.                    *)

\* the frames read so far
FramesRead ==
    IF kind = "anim" /\ pc = "returned" THEN self.frames[1]
    ELSE IF kind = "anim" /\ pc \in {"frame", "frame_line"} THEN acc
    ELSE <<>>

\* the index in yielded of the line that closed frame f
ClosedAt(f) == FramesRead[f].at + Len(FramesRead[f].positions[1]) + 1

\* every frame read holds the lines between its opener and the first line
\* after it that starts with "}", and the next frame was sought after that
\* line
FramesAreBlocks ==
    \A f \in 1..Len(FramesRead) :
        LET frame == FramesRead[f]
            n == Len(frame.positions[1])
        IN  /\ Words(frame.at)[1] = "frame"
            /\ Len(frame.orientations[1]) = n
            /\ Words(ClosedAt(f))[1] = "}"
            /\ \A k \in 1..n :
                   /\ Words(frame.at + k)[1] # "}"
                   /\ frame.positions[1][k] =
                          process_frame_bone(yielded[frame.at + k]).val.position
                   /\ frame.orientations[1][k] =
                          process_frame_bone(yielded[frame.at + k]).val.orientation
            /\ f > 1 =>
                   /\ frame.at > ClosedAt(f - 1)
                   /\ \A i \in (ClosedAt(f - 1) + 1)..(frame.at - 1) :
                          Words(i)[1] # "frame"

\* inside a frame block the line read next closes the frame when it starts
\* with "}", and the load goes to its except clause when no line is left
FrameLineRead ==
    (kind = "anim" /\ pc = "frame_line") =>
        IF NextStmt(raw, pos).eof THEN pc' = "except" /\ err' # None
        ELSE /\ yielded' = Append(yielded, NextStmt(raw, pos).line)
             /\ FirstWord(NextStmt(raw, pos).line) = "}" =>
                    /\ pc' \in {"frame", "returned"}
                    /\ err' = err
                    /\ Len(FramesRead') = Len(FramesRead) + 1
                    /\ Len(FramesRead'[Len(FramesRead')].positions[1]) = Len(loc.list)

\* C23: a frame of a loaded animation consists of the lines between its
\* 'frame N {' line and the first following line that starts with '}', in
\* order; that line is read and not stored, and the next frame is sought
\* after it; when the lines end before a line starting with '}', the load
\* fails.
C23_FrameEndsAtBrace == [](FramesAreBlocks) /\ [][FrameLineRead]_vars

\* an animation loaded with two frames of two lines each
C23_Witness ==
    /\ kind = "anim" /\ pc = "returned"
    /\ Len(self.frames[1]) = 2
    /\ Len(self.frames[1][1].positions[1]) = 2
    /\ Len(self.frames[1][2].positions[1]) = 2
    /\ self.frames[1][2].at = ClosedAt(1) + 1

----------------------------------------------------------------------------
(* The legacy MD5 module: normal generation (md5.py, generate_normals).    *)

MaxNormalTris == 2   \* triangles handed to generate_normals

\* the derived positions handed to generate_normals, in tenths; a mesh has
\* the first one, two, three or four of them and its triangles name the
\* first three, so that the fourth is a vertex of no triangle
NormalVertices == <<<<0, 0, 0>>, <<10, 0, 0>>, <<0, 10, 0>>, <<0, 0, 10>>>>

\* pyrr.vector.generate_normals( v1, v2, v3, normalise_result = False ) for
\* one triangle: cross( v3 - v2, v1 - v2 )
FaceNormal(v1, v2, v3) ==
    Cross([i \in 1..3 |-> v3[i] - v2[i]], [i \in 1..3 |-> v1[i] - v2[i]])

\* numpy's index of a vertex: a negative index counts from the end
NormalIndex(verts, index) == IF index < 0 THEN index + Len(verts) + 1 ELSE index + 1

\* `normals[ i ] += normal`
AddNormal(normals, i, normal) ==
    [normals EXCEPT ![i] = [k \in 1..3 |-> @[k] + normal[k]]]

\* A mutant of the accumulation: `normals[ tris, : ] += n`, where a vertex
\* named by several triangles keeps the addition of the last one only.
RECURSIVE AccumulateLastOnly(_, _, _)
AccumulateLastOnly(normals, verts, tris) ==
    IF tris = <<>> THEN normals
    ELSE LET tri == Head(tris)
             at(k) == NormalIndex(verts, tri[k])
             normal == FaceNormal(verts[at(1)], verts[at(2)], verts[at(3)])
         IN  AccumulateLastOnly(
                 [i \in 1..Len(normals) |->
                     IF i \in {at(1), at(2), at(3)} THEN normal ELSE normals[i]],
                 verts, Tail(tris))

\* `for tri, normal in zip(tris, n)`: three additions for each triangle
RECURSIVE Accumulate(_, _, _)
Accumulate(normals, verts, tris) ==
    IF tris = <<>> THEN normals
    ELSE LET tri == Head(tris)
             at(k) == NormalIndex(verts, tri[k])
             normal == FaceNormal(verts[at(1)], verts[at(2)], verts[at(3)])
         IN  Accumulate(
                 AddNormal(AddNormal(AddNormal(normals, at(1), normal),
                                     at(2), normal), at(3), normal),
                 verts, Tail(tris))

\* generate_normals( verts, tris ): the fancy index `np_verts[ tris, : ]`
\* raises IndexError for an index outside the vertices, and `v[ :, 0, : ]`
\* raises it when there is no triangle (v then has two dimensions); the
\* value is the array of sums as it stands before
\* `pyrr.vector.normalise( normals )`
generate_normals(verts, tris) ==
    IF \/ verts = <<>>
       \/ tris = <<>>
       \/ \E t \in 1..Len(tris) : \E k \in 1..3 :
              tris[t][k] >= Len(verts) \/ tris[t][k] < 0 - Len(verts)
    THEN Fails("IndexError")
    ELSE Ok(Accumulate([i \in 1..Len(verts) |-> <<0, 0, 0>>], verts, tris))

\* the state before `normals = generate_normals( positions, tris )`
InitNormals ==
    /\ kind = "normals"
    /\ raw = <<>>
    /\ pos = 0
    /\ yielded = <<>>
    /\ pc = "generate"
    /\ err = None
    /\ self = NoObject
    /\ \E n \in 1..Len(NormalVertices) :
       \E tris \in SeqsUpTo([1..3 -> 0..(Len(NormalVertices) - 2)], MaxNormalTris) :
           loc = [verts |-> SubSeq(NormalVertices, 1, n), tris |-> tris]
    /\ cur = None
    /\ acc = <<>>
    /\ seek = NoSeek

\* md5.py 542-545; an exception leaves _process_buffer
NormalsGenerate ==
    /\ kind = "normals" /\ pc = "generate"
    /\ LET r == generate_normals(loc.verts, loc.tris)
       IN  IF r.exc # ""
           THEN err' = Some(Exception(r.exc)) /\ pc' = "raised" /\ UNCHANGED cur
           ELSE cur' = Some(r.val) /\ pc' = "generated" /\ UNCHANGED err
    /\ UNCHANGED <<kind, raw, pos, yielded, self, loc, acc, seek>>

SpecNormals == InitNormals /\ [][NormalsGenerate]_vars

----------------------------------------------------------------------------
(* C24: the accumulated normals.                                           *)

\* how often triangle tri names vertex i (an index of loc.verts from 0)
References(tri, i) == Cardinality({k \in 1..3 : tri[k] = i})

\* the face normal of triangle tri of loc.tris
NormalOf(tri) ==
    FaceNormal(loc.verts[tri[1] + 1], loc.verts[tri[2] + 1], loc.verts[tri[3] + 1])

\* the sum over the first n triangles of (references to i) * (face normal)
RECURSIVE NormalSum(_, _)
NormalSum(i, n) ==
    IF n = 0 THEN <<0, 0, 0>>
    ELSE [k \in 1..3 |-> NormalSum(i, n - 1)[k]
                         + References(loc.tris[n], i) * NormalOf(loc.tris[n])[k]]

----------------------------------------------------------------------------
(* C25: the w component of the frames.                                     *)

\* C25: in a loaded animation every frame line that gives all three of qx,
\* qy, qz (whatever their values, 0 included) has the w that
\* compute_quaternion_w gives for them, as the joints and the base frame
\* have; w is None only on a line that lacks one of the three.
C25_FrameWForEveryFullLine ==
    (kind = "anim" /\ pc = "returned") =>
        \A f \in 1..Len(self.frames[1]) :
            \A k \in 1..Len(self.frames[1][f].orientations[1]) :
                LET o == self.frames[1][f].orientations[1][k]
                IN  IF o[1] # None /\ o[2] # None /\ o[3] # None
                    THEN o[4] = Some(compute_quaternion_w(o[1][1], o[2][1], o[3][1]))
                    ELSE o[4] = None

----------------------------------------------------------------------------
(* The stack of buffers of the OBJ loader (obj/__init__.py): BufferStack   *)
(* and ArgumentBufferStack.  A file is an object of the store acc, held by *)
(* reference: its lines and the number of them already read.  A LifoQueue  *)
(* is the sequence of what was put, the last put being the first got.      *)

MaxStackBuffers == 3 \* buffers pushed in a run

\* BufferStack.__init__ and ArgumentBufferStack.__init__ (the fields
\* args_stack and args exist in an ArgumentBufferStack only)
NewBufferStack(class) ==
    [class |-> class, stack |-> <<>>, buffer |-> None, args_stack |-> <<>>, args |-> None]

\* A mutant of _pop: the queue is first in, first out.
_pop_fifo(s) ==
    IF s.stack # <<>>
    THEN [s EXCEPT !.buffer = Some(Head(s.stack)), !.stack = Tail(s.stack)]
    ELSE [s EXCEPT !.buffer = None]

\* BufferStack._pop
_pop(s) ==
    IF s.stack # <<>>
    THEN [s EXCEPT !.buffer = Some(s.stack[Len(s.stack)]),
                   !.stack = SubSeq(s.stack, 1, Len(s.stack) - 1)]
    ELSE [s EXCEPT !.buffer = None]

\* BufferStack.push of the file object with reference ref (a file object is
\* true whatever it holds)
push(s, ref) ==
    IF s.buffer # None
    THEN [s EXCEPT !.stack = Append(s.stack, s.buffer[1]), !.buffer = Some(ref)]
    ELSE [s EXCEPT !.buffer = Some(ref)]

\* BufferStack.readline: the stack and the files after the call, and the line
\* returned or the exception raised
RECURSIVE readline(_, _)
readline(s, files) ==
    IF s.buffer = None
    THEN [self |-> s, files |-> files, exc |-> "StopIteration", line |-> <<>>]
    ELSE LET f == files[s.buffer[1]]
         IN  IF f.at = Len(f.lines) THEN readline(_pop(s), files)
             ELSE [self |-> s,
                   files |-> [files EXCEPT ![s.buffer[1]].at = @ + 1],
                   exc |-> "",
                   line |-> f.lines[f.at + 1]]

\* string.Template( line ).substitute( args ), word by word: "$$" is a
\* dollar sign, "$1" is not a placeholder (a name starts with a letter or an
\* underscore) and raises ValueError, "$a" is looked up in args under the
\* string 'a'
RECURSIVE substitute(_, _)
substitute(line, args) ==
    IF line = <<>> THEN Ok(<<>>)
    ELSE LET w == Head(line)
             rest == substitute(Tail(line), args)
         IN  IF w = "$1" THEN Fails("ValueError")
             ELSE IF w = "$a"
             THEN IF args = None THEN Fails("TypeError")
                  ELSE IF [str |-> "a"] \notin DOMAIN args[1] THEN Fails("KeyError")
                  ELSE IF rest.exc # "" THEN rest
                  ELSE Ok(<<args[1][[str |-> "a"]]>> \o rest.val)
             ELSE IF rest.exc # "" THEN rest
             ELSE Ok(<<IF w = "$$" THEN "$" ELSE w>> \o rest.val)

\* ArgumentBufferStack.readline
args_readline(s, files) ==
    LET r == readline(s, files)
        line == substitute(r.line, r.self.args)
    IN  IF r.exc # "" \/ line.exc = "" THEN [r EXCEPT !.line = line.val]
        ELSE [r EXCEPT !.exc = line.exc, !.line = <<>>]

\* ArgumentBufferStack.push_args: the keys of the dictionary are the
\* integers from 0; Queue.LifoQueue has no method push
push_args(s, args) ==
    IF s.args # None /\ DOMAIN s.args[1] # {}
    THEN [exc |-> "AttributeError", val |-> s]
    ELSE Ok([s EXCEPT !.args =
                 Some([k \in {[int |-> num] : num \in 0..(Len(args) - 1)} |->
                          args[k.int + 1]])])

\* a stack just made, of either class; loc is what the run has done so far:
\* the lines returned, as pairs of file and line number, and the arguments
\* given after each file was pushed
InitStack ==
    /\ kind = "stack"
    /\ raw = <<>>
    /\ pos = 0
    /\ yielded = <<>>
    /\ pc = "ready"
    /\ err = None
    /\ self \in {NewBufferStack(class) : class \in {"BufferStack", "ArgumentBufferStack"}}
    /\ loc = [read |-> <<>>, given |-> <<>>]
    /\ cur = None
    /\ acc = <<>>
    /\ seek = NoSeek

\* buffers.push( f ) of a file just opened: an empty file, a file of one
\* line with a $a, or a file of two lines, the second with a $1
StackPush ==
    \E lines \in {<<>>, <<<<"v", "$a">>>>, <<<<"v", "1">>, <<"v", "$1">>>>} :
        /\ kind = "stack" /\ Len(acc) < MaxStackBuffers
        /\ acc' = Append(acc, [lines |-> lines, at |-> 0])
        /\ self' = push(self, Len(acc) + 1)
        /\ loc' = [loc EXCEPT !.given = Append(@, None)]
        /\ err' = None
        /\ cur' = None
        /\ UNCHANGED <<kind, raw, pos, yielded, pc, seek>>

\* buffers.readline()
StackReadline ==
    /\ kind = "stack"
    /\ LET r == IF self.class = "BufferStack" THEN readline(self, acc)
                ELSE args_readline(self, acc)
       IN  /\ self' = r.self
           /\ acc' = r.files
           /\ err' = IF r.exc # "" THEN Some(Exception(r.exc)) ELSE None
           /\ cur' = IF r.exc # "" THEN None ELSE Some(r.line)
           /\ loc' = IF r.files = acc THEN loc
                     ELSE LET ref == CHOOSE i \in 1..Len(acc) : r.files[i] # acc[i]
                          IN  [loc EXCEPT !.read = Append(@, <<ref, r.files[ref].at>>)]
    /\ UNCHANGED <<kind, raw, pos, yielded, pc, seek>>

\* buffers.push_args( args ), once for the file pushed last
StackPushArgs ==
    \E args \in {<<>>, <<"x">>} :
        /\ kind = "stack" /\ self.class = "ArgumentBufferStack"
        /\ acc # <<>> /\ loc.given[Len(acc)] = None
        /\ LET r == push_args(self, args)
           IN  /\ self' = r.val
               /\ err' = IF r.exc # "" THEN Some(Exception(r.exc)) ELSE None
               /\ loc' = [loc EXCEPT !.given[Len(acc)] = Some(args)]
        /\ cur' = None
        /\ UNCHANGED <<kind, raw, pos, yielded, pc, acc, seek>>

SpecStack == InitStack /\ [][StackPush \/ StackReadline \/ StackPushArgs]_vars

----------------------------------------------------------------------------
(* C26: the order of the lines a BufferStack returns.                      *)

\* the files pushed so far that still have a line to give
Live == {r \in 1..Len(acc) : acc[r].at < Len(acc[r].lines)}

\* the lines of file r returned so far, in the order of their return
RECURSIVE ReadOf(_, _)
ReadOf(r, n) ==
    IF n = 0 THEN <<>>
    ELSE IF loc.read[n][1] = r THEN Append(ReadOf(r, n - 1), loc.read[n][2])
    ELSE ReadOf(r, n - 1)

\* of every file pushed, the lines returned so far are its first lines, each
\* once and in the order of the file
LinesOnce ==
    kind = "stack" =>
        \A r \in 1..Len(acc) :
            ReadOf(r, Len(loc.read)) = [i \in 1..acc[r].at |-> i]

\* a call of readline on a BufferStack returns the next line of the file
\* pushed last among those that have a line left, and raises StopIteration
\* when no file has one
ReadlineOfStack ==
    (/\ kind = "stack" /\ self.class = "BufferStack"
     /\ Len(acc') = Len(acc))
        => IF Live = {}
           THEN /\ err' = Some(Exception("StopIteration"))
                /\ acc' = acc
                /\ loc'.read = loc.read
           ELSE LET r == CHOOSE x \in Live : \A y \in Live : y <= x
                IN  /\ err' = None
                    /\ cur' = Some(acc[r].lines[acc[r].at + 1])
                    /\ acc' = [acc EXCEPT ![r].at = @ + 1]
                    /\ loc'.read = Append(loc.read, <<r, acc[r].at + 1>>)

\* C26: for any sequence of push and readline calls on a BufferStack,
\* readline returns the next line of the most recently pushed buffer that is
\* not exhausted, so that a buffer interrupted by a push resumes where it
\* was when the pushed one is exhausted; no line is returned twice or out of
\* its file's order; and the end of input is signalled only when every
\* pushed buffer is exhausted.
C26_LinesInIncludeOrder == [](LinesOnce) /\ [][ReadlineOfStack]_vars

\* a file of two lines interrupted after its first line by a file of one
\* line, and resumed
C26_Witness ==
    /\ kind = "stack" /\ self.class = "BufferStack"
    /\ loc.read = <<<<1, 1>>, <<2, 1>>, <<1, 2>>>>
    /\ cur = Some(<<"v", "$1">>)

----------------------------------------------------------------------------
(* C27: the arguments of an ArgumentBufferStack.                           *)

\* the line with every $1 replaced by the first argument
WithArguments(line, args) ==
    [i \in 1..Len(line) |-> IF line[i] = "$1" THEN args[1] ELSE line[i]]

\* C27: on an ArgumentBufferStack every call of push_args succeeds, whatever
\* the depth of the files already pushed, and a line read from a file is
\* returned with $1 replaced by the first of the arguments given for that
\* file, also when the file is resumed after a file it included.
C27_ArgumentsPerIncludeLevel ==
    [][(kind = "stack" /\ self.class = "ArgumentBufferStack") =>
           /\ loc'.given # loc.given => err' = None
           /\ (/\ Len(acc') = Len(acc) /\ loc'.given = loc.given
               /\ Live # {})
                  => LET r == CHOOSE x \in Live : \A y \in Live : y <= x
                         line == acc[r].lines[acc[r].at + 1]
                     IN  (/\ loc.given[r] # None
                          /\ "$a" \notin {line[i] : i \in 1..Len(line)}
                          /\ "$1" \in {line[i] : i \in 1..Len(line)}
                                 => loc.given[r][1] # <<>>)
                             => /\ err' = None
                                /\ cur' = Some(WithArguments(line, loc.given[r][1]))
      ]_vars

----------------------------------------------------------------------------
(* C28: the range of the vertex indices stored.                            *)

\* the vertex words of the element statement just read
VertexWords == [i \in 1..Len(Split(Split1(cur'[1])[2])) |->
                   SplitSlash(Split(Split1(cur'[1])[2])[i])[1]]

\* C28 (as claimed): every vertex index that a p, l or f statement stores is
\* one of 0 .. n-1, n being the number of vertices parsed before the
\* statement.
C28_StoredIndicesInRange ==
    [][Handled(ElementTypes) =>
          \A i \in 1..Len(Stored) :
              /\ Stored[i][1] # None
              /\ Stored[i][1][1] \in 0..(Len(self.vertices) - 1)]_vars

\* C28 (amended): a p, l or f statement none of whose vertex words is 0 is
\* stored whatever its indices are: word w gives w - 1 when positive and
\* n + w when negative, in 0 .. n-1 or not; a statement with a vertex word 0
\* raises AssertionError, which ends the load, and adds an index to no list.
C28_IndicesStoredUnchecked ==
    [][Read(ElementTypes) =>
          IF \E i \in 1..Len(VertexWords) : VertexWords[i] = "0"
          THEN /\ err' = Some(Exception("AssertionError"))
               /\ pc' = "raised"
               /\ \A j \in 1..Len(acc'.lists) :
                      acc'.lists[j] = IF j <= Len(acc.lists) THEN acc.lists[j] ELSE <<>>
          ELSE /\ err' = None
               /\ Len(Stored) = Len(VertexWords)
               /\ \A i \in 1..Len(VertexWords) :
                      Stored[i][1] =
                          Some(IF IntVal(VertexWords[i]) > 0
                               THEN IntVal(VertexWords[i]) - 1
                               ELSE Len(self.vertices) + IntVal(VertexWords[i]))]_vars

\* the point 1 stored as index 0 of no vertex, and a line of the indices -1
\* and -2 after it
C28_Witness ==
    /\ kind = "obj" /\ pc = "statement" /\ err = None
    /\ self.vertices = <<>>
    /\ cur = Some(Stmt(<<"l", "-1", "-2">>))
    /\ acc.lists[CurrentDict([data |-> self, store |-> acc]).points]
           = <<<<Some(0), None, None>>>>
    /\ acc.lists[CurrentDict([data |-> self, store |-> acc]).lines]
           = <<<<<<Some(-1), None, None>>, <<Some(-2), None, None>>>>>>

----------------------------------------------------------------------------
(* C29: the list of submeshes and the current submesh.                     *)

\* the current submesh is the last of meshes, and every submesh made so far
\* is in meshes once
MeshesHoldEverySubmesh ==
    kind = "obj" =>
        /\ self._current_mesh # None =>
               /\ self.meshes # <<>>
               /\ self.meshes[Len(self.meshes)] = self._current_mesh[1]
        /\ \A ref \in 1..Len(acc.dicts) :
               Cardinality({i \in 1..Len(self.meshes) : self.meshes[i] = ref}) = 1

\* meshes changes by appending only, and a v, vt, vn, mtllib or maplib
\* statement leaves meshes, the current submesh and every submesh as they are
MeshesOnlyGrow ==
    kind = "obj" =>
        /\ Len(self'.meshes) >= Len(self.meshes)
        /\ SubSeq(self'.meshes, 1, Len(self.meshes)) = self.meshes
        /\ Read({"v", "vt", "vn", "mtllib", "maplib"}) =>
               /\ self'.meshes = self.meshes
               /\ self'._current_mesh = self._current_mesh
               /\ acc' = acc

\* C29: the current submesh of an OBJ_Mesh, when there is one, is the last
\* element of meshes; every submesh ever made is in meshes exactly once;
\* meshes changes only by appending; and the statements v, vt, vn, mtllib and
\* maplib change neither meshes nor the current submesh.
C29_CurrentSubmeshIsLast == [](MeshesHoldEverySubmesh) /\ [][MeshesOnlyGrow]_vars

\* an mtllib statement read after the second submesh was made
C29_Witness ==
    /\ kind = "obj" /\ pc = "statement" /\ err = None
    /\ cur = Some(Stmt(<<"mtllib", "m">>))
    /\ self.materials = {<<"m">>}
    /\ Len(self.meshes) = 2
    /\ self._current_mesh = Some(self.meshes[2])

----------------------------------------------------------------------------
(* C30: a block with more or fewer entry lines than its count.             *)

\* the statements of the whole file, in order
FileStatements ==
    LET lines == SelectSeq([i \in 1..Len(raw) |-> i], LAMBDA i : HasStatement(raw[i]))
    IN  [k \in 1..Len(lines) |-> CleanLine(raw[lines[k]])]

\* the block that starts after statement number at has n lines at least
\* before the statement that ends it
HoldsDeclared(at, n, end) ==
    \A k \in 1..n :
        /\ at + k <= Len(FileStatements)
        /\ FirstWord(FileStatements[at + k]) # end

\* a well-formed file with one line of a joints, vertex, triangle or weight
\* block written twice
SurplusMeshFiles ==
    UNION {{SubSeq(f, 1, i) \o SubSeq(f, i, Len(f)) :
                i \in {i \in 1..Len(f) :
                          FirstWord(CleanLine(f[i])) \in {"\"a\"", "vert", "tri", "weight"}}} :
           f \in {MeshFile(nj, nm, ne) :
                      nj \in 0..MaxJoints, nm \in 0..MaxMeshes, ne \in 0..MaxEntries}}

\* C30: a mesh file one of whose counted blocks has more entry lines than
\* its count N loads: the block holds N entries, made of the first N lines,
\* and the lines after them are passed over; a mesh that has loaded has no
\* block with fewer lines than its count before the line that ends the
\* block, so that a file with such a block does not load.
C30_SurplusPassedOverShortageFails ==
    /\ (kind = "mesh" /\ raw \in SurplusMeshFiles) => pc \notin {"except", "raised"}
    /\ (kind = "mesh" /\ pc = "returned") =>
           /\ HoldsDeclared(self.joints[1].at, Declared("numJoints"), "}")
           /\ Len(self.joints[1].names) = RangeLen(Declared("numJoints"))
           /\ \A k \in 1..Len(self.joints[1].parents) :
                  self.joints[1].parents[k]
                      = IntVal(Split(FileStatements[self.joints[1].at + k])[2])
           /\ \A s \in 1..Len(self.meshes[1]) :
                  LET m == self.meshes[1][s]
                  IN  /\ HoldsDeclared(m.at.verts, IntVal(Words(m.at.verts)[2]), "numtris")
                      /\ HoldsDeclared(m.at.tris, IntVal(Words(m.at.tris)[2]), "numweights")
                      /\ HoldsDeclared(m.at.weights, IntVal(Words(m.at.weights)[2]), "}")
                      /\ Len(m.tcs[1]) = RangeLen(IntVal(Words(m.at.verts)[2]))
                      /\ Len(m.tris[1]) = RangeLen(IntVal(Words(m.at.tris)[2]))
                      /\ Len(m.joints[1]) = RangeLen(IntVal(Words(m.at.weights)[2]))

\* a mesh loaded from a file of two joints whose first joint line is written
\* twice: the joints are made of the first two lines, and the third line, of
\* a joint with parent 0, is passed over
C30_Witness ==
    /\ kind = "mesh" /\ pc = "returned"
    /\ raw \in SurplusMeshFiles
    /\ Declared("numJoints") = 2
    /\ self.joints[1].parents = <<-1, -1>>
    /\ Len(self.meshes[1]) = 1
    /\ FirstWord(FileStatements[self.joints[1].at + 3]) = "\"a\""
    /\ IntVal(Split(FileStatements[self.joints[1].at + 3])[2]) = 0

====
